---- MODULE Spec2Model ----
(***************************************************************************)
(* Adaptive challenge-response gateway of znapfile: download tokens,       *)
(* file-password lockout, arithmetic captchas, the login flow guarded by   *)
(* AdaptiveSecurityResponse (also during a redis outage and while its      *)
(* counters expire), the stand-alone proof-of-work verifiers, the access   *)
(* token blacklist and the abuse checks.                                   *)
(*                                                                         *)
(* Every request handler is an async coroutine: it is modelled as a        *)
(* sequence of atomic steps, one step per stretch of code between two      *)
(* awaits, so that concurrent requests interleave exactly where the event  *)
(* loop (or a second worker) can interleave them.                          *)
(***************************************************************************)
EXTENDS Integers, FiniteSets, Sequences, TLC

(***************************************************************************)
(* Bounds of the model.                                                    *)
(***************************************************************************)
MaxTokens == 1          \* download tokens minted in one behaviour
MaxCaptchas == 1        \* captchas generated in one behaviour
TickSeconds == 35       \* short clock advance
MaxTicks == 2           \* short clock advances in one behaviour
LongTick == 310         \* long clock advance (past the captcha expiry)
OperandMax == 1         \* captcha operands are drawn from 1..OperandMax
MaxChallenges == 2      \* login challenges stored in one behaviour
MaxLogins == 3          \* login requests made in one behaviour
MaxCount == 51          \* failures recorded before the behaviour, at most
MaxPow == 2             \* proof-of-work challenges created in one behaviour
MaxPowFailures == 11    \* failed proof-of-work verifications counted per address
MaxDownloads == 11      \* downloads of the file counted in one behaviour
MaxSessions == 2        \* access tokens issued in one behaviour
ShortWait == 1          \* a short wait, and the shortest time to live left
MaxWaits == 2           \* short waits in one behaviour

(***************************************************************************)
(* Program constants.                                                      *)
(***************************************************************************)
token_expiry == 60      \* DownloadTokenManager.token_expiry
pow_challenge_ttl == 300   \* ServerSidePoW.challenge_ttl
pow_expiry == 300       \* ProofOfWorkCaptcha.expiry
pow_difficulty == 4     \* ProofOfWorkCaptcha.difficulty (default)
captcha_expiry == 300   \* MathCaptcha.captcha_expiry
challenge_ttl == 60     \* AdaptiveSecurityResponse.challenge_ttl
CaptchaThreshold == 3   \* verify_file_password: captcha after 3 failures

Reqs == {"r1", "r2"}                 \* concurrently handled requests
IPs == {"ip1", "ip2"}                \* request.client.host
Files == {"f1", "f2"}                \* short codes / file ids
FilePassword == [f \in Files |-> IF f = "f1" THEN "secret" ELSE ""]
OpenFiles == {f \in Files : FilePassword[f] = ""}
Passwords == {"secret", "guess", ""} \* submitted passwords ("" = none)
NoneId == 0                          \* absent token / captcha id

Toks == 1..MaxTokens
Caps == 1..MaxCaptchas

VARIABLES
    now,            \* time.time()
    db_failed,      \* File.failed_password_attempts as committed in the DB
    db_max,         \* File.max_password_attempts (0 = NULL, unlimited)
    tokens,         \* DownloadTokenManager.tokens (token hash -> data)
    nextTok,        \* next fresh secrets.token_urlsafe value
    captcha_store,  \* MathCaptcha.captcha_store
    nextCap,        \* next fresh captcha id
    req,            \* the request handlers in flight
    response,       \* the response the step just taken sent (if it sent one)
    tokSuccess,     \* history: successful redemptions per token
    mintedFor,      \* history: file and address each token was minted for
    attempts,       \* redis asr:attempts:<scope>:<id> (absent key = no entry)
    blocked,        \* redis asr:blocked:<id>, the identifiers that are set
    challenges,     \* redis asr:challenge:<id> -> stored challenge
    nextChal,       \* next fresh secrets.token_urlsafe challenge id
    lreq,           \* the login handlers in flight
    logins,         \* history: login requests made so far
    consumed,       \* history: <<kind, id>> a verification call has found stored
                    \* (kind *_rejected: found stored and answered False for)
    solved,         \* history: ids a verification call answered True for
    redis_up,       \* the redis server answers (FALSE during an outage)
    pow_store,      \* redis pow:<id> -> challenge of ServerSidePoW
    pow_challenges, \* ProofOfWorkCaptcha.challenges
    nextPow,        \* next fresh secrets.token_hex proof-of-work id
    pow_failures,   \* redis failures:<ip> of ServerSidePoW (0 = no key)
    attempts_ttl,   \* when redis drops each counter key (no entry = no TTL)
    block_told,     \* history: the timed block last announced to an address
    issuedTo,       \* history: the address each login challenge was issued to
    refused,        \* history: tokens refused for a mismatch while redeemable
    access_tokens,  \* the access tokens issued (jti -> user id)
    blacklist,      \* redis token_blacklist:<jti>, the jtis that are set
    user_tokens,    \* redis user_tokens:<user id> (set of jti)
    logged_out_all, \* history: jtis issued before a logout-all of their user
    tier,           \* User.tier of the uploader
    usage,          \* what the queries of the abuse checks return
    stats,          \* the download statistics in the row of a file
    scores          \* the dict calculate_abuse_score returned last

\* shared by the specifications
cvars == <<now, captcha_store, nextCap, response>>

\* files, download tokens and their requests
fvars == <<db_failed, db_max, tokens, nextTok, req, tokSuccess, mintedFor>>

\* the login flow, its redis keys and its requests
lvars == <<attempts, blocked, challenges, nextChal, lreq, logins, consumed,
           solved>>

\* the redis connection and the stand-alone proof-of-work verifiers
rvars == <<redis_up, pow_store, pow_challenges, nextPow, pow_failures>>

\* the time to live of the counters, what the login flow told its clients
tvars == <<attempts_ttl, block_told, issuedTo>>

\* the access tokens and their blacklist
svars == <<access_tokens, blacklist, user_tokens, logged_out_all>>

\* the abuse checks
avars == <<tier, usage, stats, scores>>

\* all that the requests for files and the login flow leave alone
xvars == <<tvars, svars, avars, refused>>

pvars == <<rvars, xvars>>

vars == <<cvars, fvars, lvars, pvars>>

(***************************************************************************)
(* Helpers for dict-like stores.                                           *)
(***************************************************************************)
DictDel(d, k) == [x \in DOMAIN d \ {k} |-> d[x]]

DictPut(d, k, v) == [x \in DOMAIN d \cup {k} |-> IF x = k THEN v ELSE d[x]]

(***************************************************************************)
(* DownloadTokenManager (core/download_tokens.py).  A token id stands for  *)
(* the urlsafe token and for its sha256 hash, the key of the dict.         *)
(***************************************************************************)
CleanupExpiredTokens(toks, t_now) ==
    LET expired_keys == {k \in DOMAIN toks :
                            toks[k].used \/ t_now - toks[k].created_at > token_expiry}
    IN  [x \in DOMAIN toks \ expired_keys |-> toks[x]]

CreateDownloadToken(toks, token, file_id, user_ip, t_now) ==
    CleanupExpiredTokens(
        DictPut(toks, token, [file_id |-> file_id, user_ip |-> user_ip,
                              created_at |-> t_now, used |-> FALSE]),
        t_now)

\* variant: a successful verification does not mark the token used
VerifyDownloadToken_NoMark(toks, token, file_id, user_ip, t_now) ==
    IF token = NoneId THEN [ok |-> FALSE, tokens |-> toks]
    ELSE IF token \notin DOMAIN toks THEN [ok |-> FALSE, tokens |-> toks]
    ELSE IF toks[token].used THEN [ok |-> FALSE, tokens |-> toks]
    ELSE IF t_now - toks[token].created_at > token_expiry
         THEN [ok |-> FALSE, tokens |-> DictDel(toks, token)]
    ELSE IF toks[token].file_id # file_id THEN [ok |-> FALSE, tokens |-> toks]
    ELSE IF toks[token].user_ip # user_ip THEN [ok |-> FALSE, tokens |-> toks]
    ELSE [ok |-> TRUE, tokens |-> toks]

\* variant: the client address is not compared
VerifyDownloadToken_NoIp(toks, token, file_id, user_ip, t_now) ==
    IF token = NoneId THEN [ok |-> FALSE, tokens |-> toks]
    ELSE IF token \notin DOMAIN toks THEN [ok |-> FALSE, tokens |-> toks]
    ELSE IF toks[token].used THEN [ok |-> FALSE, tokens |-> toks]
    ELSE IF t_now - toks[token].created_at > token_expiry
         THEN [ok |-> FALSE, tokens |-> DictDel(toks, token)]
    ELSE IF toks[token].file_id # file_id THEN [ok |-> FALSE, tokens |-> toks]
    ELSE [ok |-> TRUE, tokens |-> [toks EXCEPT ![token].used = TRUE]]

\* variant: a token presented for another file or from another address is
\* deleted
VerifyDownloadToken_BurnOnMismatch(toks, token, file_id, user_ip, t_now) ==
    IF token = NoneId THEN [ok |-> FALSE, tokens |-> toks]
    ELSE IF token \notin DOMAIN toks THEN [ok |-> FALSE, tokens |-> toks]
    ELSE IF toks[token].used THEN [ok |-> FALSE, tokens |-> toks]
    ELSE IF t_now - toks[token].created_at > token_expiry
         THEN [ok |-> FALSE, tokens |-> DictDel(toks, token)]
    ELSE IF toks[token].file_id # file_id
         THEN [ok |-> FALSE, tokens |-> DictDel(toks, token)]
    ELSE IF toks[token].user_ip # user_ip
         THEN [ok |-> FALSE, tokens |-> DictDel(toks, token)]
    ELSE [ok |-> TRUE, tokens |-> [toks EXCEPT ![token].used = TRUE]]

VerifyDownloadToken(toks, token, file_id, user_ip, t_now) ==
    IF token = NoneId THEN [ok |-> FALSE, tokens |-> toks]
    ELSE IF token \notin DOMAIN toks THEN [ok |-> FALSE, tokens |-> toks]
    ELSE IF toks[token].used THEN [ok |-> FALSE, tokens |-> toks]
    ELSE IF t_now - toks[token].created_at > token_expiry
         THEN [ok |-> FALSE, tokens |-> DictDel(toks, token)]
    ELSE IF toks[token].file_id # file_id THEN [ok |-> FALSE, tokens |-> toks]
    ELSE IF toks[token].user_ip # user_ip THEN [ok |-> FALSE, tokens |-> toks]
    ELSE [ok |-> TRUE, tokens |-> [toks EXCEPT ![token].used = TRUE]]

(***************************************************************************)
(* MathCaptcha (core/captcha.py).  A captcha id is the first 16 hex digits *)
(* of sha256(result, time.time(), secret): distinct calls read distinct    *)
(* clock values, so every call gets a fresh id.                            *)
(***************************************************************************)
CaptchaOps == {"+", "-", "*"}

Digit == <<"0", "1", "2", "3", "4", "5", "6", "7", "8", "9">>

\* str(result) for the results the bounded operands produce
Str(n) == IF n < 10 THEN Digit[n + 1]
          ELSE Digit[(n \div 10) + 1] \o Digit[(n % 10) + 1]

\* user_input.strip() on the submitted answers of the model
CaptchaInputs == {"", " 2 ", "3"}
Strip(s) == IF s = " 2 " THEN "2" ELSE s

MathResult(a, b, op) ==
    LET x == IF op = "-" /\ a < b THEN b ELSE a
        y == IF op = "-" /\ a < b THEN a ELSE b
    IN  CASE op = "+" -> x + y
          [] op = "-" -> x - y
          [] op = "*" -> x * y

CleanupExpiredCaptchas(store, t_now) ==
    LET expired_keys == {k \in DOMAIN store :
                            t_now - store[k].created_at > captcha_expiry}
    IN  [x \in DOMAIN store \ expired_keys |-> store[x]]

GenerateCaptcha(store, captcha_id, a, b, op, t_now) ==
    CleanupExpiredCaptchas(
        DictPut(store, captcha_id,
                [answer |-> Str(MathResult(a, b, op)), created_at |-> t_now]),
        t_now)

\* variant: the captcha is removed only when the answer was right
VerifyCaptcha_KeepOnWrong(store, captcha_id, user_input, t_now) ==
    IF captcha_id = NoneId \/ user_input = ""
        THEN [ok |-> FALSE, found |-> FALSE, store |-> store]
    ELSE IF captcha_id \notin DOMAIN store
        THEN [ok |-> FALSE, found |-> FALSE, store |-> store]
    ELSE IF t_now - store[captcha_id].created_at > captcha_expiry
        THEN [ok |-> FALSE, found |-> TRUE, store |-> DictDel(store, captcha_id)]
    ELSE [ok |-> store[captcha_id].answer = Strip(user_input),
          found |-> TRUE,
          store |-> IF store[captcha_id].answer = Strip(user_input)
                    THEN DictDel(store, captcha_id) ELSE store]

VerifyCaptcha(store, captcha_id, user_input, t_now) ==
    IF captcha_id = NoneId \/ user_input = ""
        THEN [ok |-> FALSE, found |-> FALSE, store |-> store]
    ELSE IF captcha_id \notin DOMAIN store
        THEN [ok |-> FALSE, found |-> FALSE, store |-> store]
    ELSE IF t_now - store[captcha_id].created_at > captcha_expiry
        THEN [ok |-> FALSE, found |-> TRUE, store |-> DictDel(store, captcha_id)]
    ELSE [ok |-> store[captcha_id].answer = Strip(user_input),
          found |-> TRUE,
          store |-> DictDel(store, captcha_id)]

\* variant: every submitted password verifies
VerifyPassword_Any(plain, f) == plain = plain

\* pwd_context.verify(plain, hash): the hash of file f is that of FilePassword[f]
VerifyPassword(plain, f) == plain = FilePassword[f]

HasPassword(f) == FilePassword[f] # ""

\* `file.max_password_attempts and failed >= file.max_password_attempts`
IsLocked(max_attempts, failed) == max_attempts # 0 /\ failed >= max_attempts

(***************************************************************************)
(* Request handlers of secure_download.py and download.py.                 *)
(***************************************************************************)
IdleReq == [pc |-> "idle", op |-> "none", ip |-> "ip1", code |-> "f1",
            password |-> "", captcha_id |-> NoneId, captcha_answer |-> "",
            token |-> NoneId, loaded |-> 0, failed |-> 0,
            pw_checked |-> FALSE, captcha_ok |-> FALSE]

NoResponse == [result |-> "none", note |-> "none"]

\* the handler of request r returns (or raises HTTPException) with outcome
\* res; note tells what kind of request was answered
Finish(r, res, note) ==
    /\ req' = [req EXCEPT ![r] = IdleReq]
    /\ response' = [result |-> res, note |-> note]

\* a step inside a handler sends nothing
Silent == response' = NoResponse

\* The files were uploaded, the protected ones with one of the given
\* max_password_attempts; nothing else has happened yet.
FileInit(max_choices) ==
    /\ now = 0
    /\ db_failed = [f \in Files |-> 0]
    /\ db_max \in [Files -> max_choices \cup {0}]
    /\ \A f \in Files : db_max[f] = 0 <=> f \in OpenFiles
    /\ tokens = <<>>
    /\ nextTok = 1
    /\ captcha_store = <<>>
    /\ nextCap = 1
    /\ req = [r \in Reqs |-> IdleReq]
    /\ response = NoResponse
    /\ tokSuccess = [t \in Toks |-> 0]
    /\ mintedFor = <<>>

\* time passes
Tick(d) ==
    /\ d = TickSeconds => now + d <= MaxTicks * TickSeconds
    /\ d = LongTick => now < LongTick
    /\ now' = now + d
    /\ Silent
    /\ UNCHANGED <<captcha_store, nextCap>>
    /\ UNCHANGED <<fvars, lvars, pvars>>

\* A request arrives and its handler runs up to the end of
\* `await db.execute(select(File)...)`: the session has read the row.
\* What the request names out of the state (the file, a captcha id or token
\* issued earlier) is fixed here; the free-text fields of its body (address,
\* password, answer) are drawn where the handler reads them.
StartVerifyPassword(r, codes) ==
    /\ req[r].pc = "idle"
    /\ \E c \in codes, cid \in 0..(nextCap - 1) :
          req' = [req EXCEPT ![r] = [IdleReq EXCEPT !.pc = "check",
                      !.op = "verify_password", !.code = c,
                      !.captcha_id = cid,
                      !.loaded = db_failed[c], !.failed = db_failed[c]]]
    /\ Silent
    /\ UNCHANGED <<now, db_failed, db_max, tokens, nextTok, captcha_store,
                   nextCap, tokSuccess, mintedFor>>
    /\ UNCHANGED <<lvars, pvars>>

StartDownloadFile(r, codes) ==
    /\ req[r].pc = "idle"
    /\ \E c \in codes :
          req' = [req EXCEPT ![r] = [IdleReq EXCEPT !.pc = "check",
                      !.op = "download_file", !.code = c,
                      !.loaded = db_failed[c], !.failed = db_failed[c]]]
    /\ Silent
    /\ UNCHANGED <<now, db_failed, db_max, tokens, nextTok, captcha_store,
                   nextCap, tokSuccess, mintedFor>>
    /\ UNCHANGED <<lvars, pvars>>

StartDownloadWithToken(r) ==
    /\ req[r].pc = "idle"
    /\ \E c \in Files, t \in 0..(nextTok - 1) :
          req' = [req EXCEPT ![r] = [IdleReq EXCEPT !.pc = "check",
                      !.op = "download_with_token", !.code = c, !.token = t]]
    /\ Silent
    /\ UNCHANGED <<now, db_failed, db_max, tokens, nextTok, captcha_store,
                   nextCap, tokSuccess, mintedFor>>
    /\ UNCHANGED <<lvars, pvars>>

StartInitiateDownload(r, codes) ==
    /\ req[r].pc = "idle"
    /\ \E c \in codes :
          req' = [req EXCEPT ![r] = [IdleReq EXCEPT !.pc = "check",
                      !.op = "initiate_download", !.code = c]]
    /\ Silent
    /\ UNCHANGED <<now, db_failed, db_max, tokens, nextTok, captcha_store,
                   nextCap, tokSuccess, mintedFor>>
    /\ UNCHANGED <<lvars, pvars>>

\* verify_file_password, from the loaded row up to its first await
VerifyPasswordCheck(r, clients) ==
    \E ip \in clients, pw \in Passwords \ {""}, ans \in CaptchaInputs :
    LET q == [req[r] EXCEPT !.ip = ip, !.password = pw, !.captcha_answer = ans]
        f == q.code
        need_captcha == q.failed >= CaptchaThreshold
        v == VerifyCaptcha(captcha_store, q.captcha_id, q.captcha_answer, now)
        q1 == [q EXCEPT !.captcha_ok = need_captcha /\ v.ok,
                        !.captcha_id = NoneId, !.captcha_answer = ""]
    IN
    /\ q.pc = "check" /\ q.op = "verify_password"
    /\ IF ~HasPassword(f) THEN
            /\ Finish(r, "no_password_required", "none")
            /\ UNCHANGED <<captcha_store, nextCap>>
       ELSE IF need_captcha /\ (q.captcha_id = NoneId \/ q.captcha_answer = "") THEN
            /\ nextCap <= MaxCaptchas
            /\ \E a \in 1..OperandMax, b \in 1..OperandMax, op \in CaptchaOps :
                  captcha_store' = GenerateCaptcha(captcha_store, nextCap, a, b, op, now)
            /\ nextCap' = nextCap + 1
            /\ Finish(r, "captcha_required", "none")
       ELSE
            /\ captcha_store' = IF need_captcha THEN v.store ELSE captcha_store
            /\ UNCHANGED nextCap
            /\ IF need_captcha /\ ~v.ok THEN
                   Finish(r, "invalid_captcha", "none")
               ELSE IF IsLocked(db_max[f], q.failed) THEN
                   Finish(r, "locked", "none")
               ELSE IF ~VerifyPassword(q.password, f) THEN
                   /\ req' = [req EXCEPT ![r] = [q1 EXCEPT !.pc = "commit_fail",
                                  !.pw_checked = TRUE, !.failed = q.failed + 1]]
                   /\ Silent
               ELSE
                   /\ req' = [req EXCEPT ![r] = [q1 EXCEPT !.pc = "commit_ok",
                                  !.pw_checked = TRUE, !.failed = 0]]
                   /\ Silent
    /\ UNCHANGED <<now, db_failed, db_max, tokens, nextTok, tokSuccess, mintedFor>>
    /\ UNCHANGED <<lvars, pvars>>

\* `await db.commit()` after `file.failed_password_attempts += 1`:
\* the UPDATE writes the value computed from the row this session loaded
CommitFailedAttempt(r) ==
    /\ req[r].pc = "commit_fail"
    /\ db_failed' = [db_failed EXCEPT ![req[r].code] = req[r].failed]
    /\ req' = [req EXCEPT ![r].pc = "sleep"]
    /\ Silent
    /\ UNCHANGED <<now, db_max, tokens, nextTok, captcha_store, nextCap,
                   tokSuccess, mintedFor>>
    /\ UNCHANGED <<lvars, pvars>>

\* verify_file_password after log_event and asyncio.sleep: the 428 / 401 answer
VerifyPasswordAfterSleep(r) ==
    LET q == req[r] IN
    /\ q.pc = "sleep" /\ q.op = "verify_password"
    /\ IF q.failed >= CaptchaThreshold THEN
            /\ nextCap <= MaxCaptchas
            /\ \E a \in 1..OperandMax, b \in 1..OperandMax, op \in CaptchaOps :
                  captcha_store' = GenerateCaptcha(captcha_store, nextCap, a, b, op, now)
            /\ nextCap' = nextCap + 1
            /\ Finish(r, "incorrect_captcha_required", "none")
       ELSE
            /\ Finish(r, "incorrect", "none")
            /\ UNCHANGED <<captcha_store, nextCap>>
    /\ UNCHANGED <<now, db_failed, db_max, tokens, nextTok, tokSuccess, mintedFor>>
    /\ UNCHANGED <<lvars, pvars>>

\* `file.failed_password_attempts = 0; await db.commit()`: the unit of work
\* emits an UPDATE only when the attribute differs from the loaded value
CommitReset(r) ==
    /\ req[r].pc = "commit_ok"
    /\ db_failed' = IF req[r].loaded # 0
                    THEN [db_failed EXCEPT ![req[r].code] = 0]
                    ELSE db_failed
    /\ req' = [req EXCEPT ![r].pc = "mint"]
    /\ Silent
    /\ UNCHANGED <<now, db_max, tokens, nextTok, captcha_store, nextCap,
                   tokSuccess, mintedFor>>
    /\ UNCHANGED <<lvars, pvars>>

\* verify_file_password: create_download_token(..., password_verified=True)
MintAfterPassword(r) ==
    LET q == req[r] IN
    /\ q.pc = "mint"
    /\ nextTok <= MaxTokens
    /\ tokens' = CreateDownloadToken(tokens, nextTok, q.code, q.ip, now)
    /\ mintedFor' = DictPut(mintedFor, nextTok,
                            [file_id |-> q.code, user_ip |-> q.ip,
                                     created_at |-> now])
    /\ nextTok' = nextTok + 1
    /\ Finish(r, "token", IF q.captcha_ok THEN "after_captcha" ELSE "none")
    /\ UNCHANGED <<now, db_failed, db_max, captcha_store, nextCap, tokSuccess>>
    /\ UNCHANGED <<lvars, pvars>>

\* download_file (GET and POST /download/{code}), from the loaded row up to
\* its first await
DownloadFileCheck(r) ==
    \E pw \in Passwords :
    LET q == [req[r] EXCEPT !.password = pw]
        f == q.code
    IN
    /\ q.pc = "check" /\ q.op = "download_file"
    /\ IF ~HasPassword(f) THEN
            /\ req' = [req EXCEPT ![r] = [q EXCEPT !.pc = "serve",
                                              !.password = ""]]
            /\ Silent
       ELSE IF IsLocked(db_max[f], q.failed) THEN
            Finish(r, "locked", "none")
       ELSE IF q.password = "" THEN
            Finish(r, "password_required", "none")
       ELSE IF ~VerifyPassword(q.password, f) THEN
            /\ req' = [req EXCEPT ![r] = [q EXCEPT !.pc = "commit_fail",
                           !.pw_checked = TRUE, !.failed = q.failed + 1]]
            /\ Silent
       ELSE
            /\ req' = [req EXCEPT ![r] = [q EXCEPT !.pc = "serve",
                           !.pw_checked = TRUE]]
            /\ Silent
    /\ UNCHANGED <<now, db_failed, db_max, tokens, nextTok, captcha_store,
                   nextCap, tokSuccess, mintedFor>>
    /\ UNCHANGED <<lvars, pvars>>

\* download_file after asyncio.sleep(1): the 401 answer
DownloadFileAfterSleep(r) ==
    /\ req[r].pc = "sleep" /\ req[r].op = "download_file"
    /\ Finish(r, "incorrect", "none")
    /\ UNCHANGED <<now, db_failed, db_max, tokens, nextTok, captcha_store,
                   nextCap, tokSuccess, mintedFor>>
    /\ UNCHANGED <<lvars, pvars>>

\* download_file: the download is counted and the file is served (the
\* statistics of the row are modelled by CountDownload and DownloadCounted)
DownloadFileServe(r) ==
    /\ req[r].pc = "serve"
    /\ Finish(r, "served", "none")
    /\ UNCHANGED <<now, db_failed, db_max, tokens, nextTok, captcha_store,
                   nextCap, tokSuccess, mintedFor>>
    /\ UNCHANGED <<lvars, pvars>>

\* history: what a redemption request presents, judged from what was minted
TokenCase(token, file_id, user_ip) ==
    IF token \notin DOMAIN mintedFor THEN "unknown"
    ELSE LET m == mintedFor[token]
             live == tokSuccess[token] = 0 /\ now - m.created_at <= token_expiry
         IN  IF m.file_id # file_id \/ m.user_ip # user_ip
                 THEN (IF live THEN "mismatch_live" ELSE "mismatch")
             ELSE IF tokSuccess[token] > 0 THEN "replay"
             ELSE IF ~live THEN "expired"
             ELSE "valid"

\* download_with_token after the file was loaded: redeem the token
DownloadWithTokenVerify(r) ==
    \E ip \in IPs :
    LET q == [req[r] EXCEPT !.ip = ip]
        v == VerifyDownloadToken(tokens, q.token, q.code, q.ip, now)
    IN
    /\ q.pc = "check" /\ q.op = "download_with_token"
    /\ tokens' = v.tokens
    /\ tokSuccess' = IF v.ok
                     THEN [tokSuccess EXCEPT ![q.token] = @ + 1]
                     ELSE tokSuccess
    /\ refused' = IF TokenCase(q.token, q.code, q.ip) = "mismatch_live"
                   THEN refused \cup {q.token} ELSE refused
    /\ Finish(r, IF v.ok THEN "download_url" ELSE "invalid_token",
              TokenCase(q.token, q.code, q.ip))
    /\ UNCHANGED <<now, db_failed, db_max, nextTok, captcha_store, nextCap,
                   mintedFor>>
    /\ UNCHANGED <<lvars, rvars, tvars, svars, avars>>

\* initiate_secure_download after the file was loaded
InitiateDownloadCheck(r, clients) ==
    \E ip \in clients :
    LET q == [req[r] EXCEPT !.ip = ip] IN
    /\ q.pc = "check" /\ q.op = "initiate_download"
    /\ IF HasPassword(q.code) THEN
            /\ Finish(r, "password_required", "none")
            /\ UNCHANGED <<tokens, nextTok, mintedFor>>
       ELSE
            /\ nextTok <= MaxTokens
            /\ tokens' = CreateDownloadToken(tokens, nextTok, q.code, q.ip, now)
            /\ mintedFor' = DictPut(mintedFor, nextTok,
                                    [file_id |-> q.code, user_ip |-> q.ip,
                                     created_at |-> now])
            /\ nextTok' = nextTok + 1
            /\ Finish(r, "token", "none")
    /\ UNCHANGED <<now, db_failed, db_max, captcha_store, nextCap, tokSuccess>>
    /\ UNCHANGED <<lvars, pvars>>

(***************************************************************************)
(* AdaptiveSecurityResponse (core/defense.py) over redis.                  *)
(***************************************************************************)
LoginIPs == {"ip1"}                  \* request.client.host of login requests
Emails == {"a@x.io"}                 \* user_data.email
Fingerprints == {""}                 \* user_data.fingerprint ("" = None)
Solutions == {"", "2", "x"}          \* user_data.challenge_solution ("" = None)

\* hashlib.sha256(email.lower().encode()).hexdigest()[:16]
EmailHash(email) == IF email = "a@x.io" THEN "e3b0c44298fc1c14" ELSE "0000000000000000"

IpKey(ip) == "ip:" \o ip
EmailKey(id) == "email:" \o id
FpKey(fp) == "fp:" \o fp

\* variant: the rows of difficulty 3 and 4 change places
Levels_Swapped ==
    << [attempts |-> 0,  action |-> "none",            difficulty |-> 0],
       [attempts |-> 3,  action |-> "simple_math",     difficulty |-> 1],
       [attempts |-> 5,  action |-> "proof_of_work",   difficulty |-> 2],
       [attempts |-> 10, action |-> "proof_of_work",   difficulty |-> 4],
       [attempts |-> 15, action |-> "proof_of_work",   difficulty |-> 3],
       [attempts |-> 20, action |-> "temp_block",      difficulty |-> 300],
       [attempts |-> 30, action |-> "temp_block",      difficulty |-> 3600],
       [attempts |-> 50, action |-> "permanent_block", difficulty |-> 0] >>

Levels ==
    << [attempts |-> 0,  action |-> "none",            difficulty |-> 0],
       [attempts |-> 3,  action |-> "simple_math",     difficulty |-> 1],
       [attempts |-> 5,  action |-> "proof_of_work",   difficulty |-> 2],
       [attempts |-> 10, action |-> "proof_of_work",   difficulty |-> 3],
       [attempts |-> 15, action |-> "proof_of_work",   difficulty |-> 4],
       [attempts |-> 20, action |-> "temp_block",      difficulty |-> 300],
       [attempts |-> 30, action |-> "temp_block",      difficulty |-> 3600],
       [attempts |-> 50, action |-> "permanent_block", difficulty |-> 0] >>

Max2(x, y) == IF x >= y THEN x ELSE y

\* `v = await redis.get(key); if v: attempts = max(attempts, int(v))`
ReadAttempts(store, key, acc) ==
    IF key \in DOMAIN store THEN Max2(acc, store[key]) ELSE acc

\* get_threat_level, the three counter reads.  No request of the model
\* writes email:<address> or fp:<address>, so the three GETs read one state.
ReadAllAttempts(store, identifier) ==
    ReadAttempts(store, FpKey(identifier),
        ReadAttempts(store, EmailKey(identifier),
            ReadAttempts(store, IpKey(identifier), 0)))

\* variant: a row is met only when the count exceeds its threshold
GetThreatLevel_Strict(cnt, is_blocked) ==
    IF is_blocked THEN [action |-> "blocked", difficulty |-> 0]
    ELSE LET met == {i \in DOMAIN Levels : cnt > Levels[i].attempts} IN
         IF met = {} THEN [action |-> "none", difficulty |-> 0]
         ELSE LET top == CHOOSE i \in met : \A j \in met : j <= i
              IN  [action |-> Levels[top].action,
                   difficulty |-> Levels[top].difficulty]

\* get_threat_level, from the read of asr:blocked:<identifier> on
GetThreatLevel(cnt, is_blocked) ==
    IF is_blocked THEN [action |-> "blocked", difficulty |-> 0]
    ELSE LET met == {i \in DOMAIN Levels : cnt >= Levels[i].attempts} IN
         IF met = {} THEN [action |-> "none", difficulty |-> 0]
         ELSE LET top == CHOOSE i \in met : \A j \in met : j <= i
              IN  [action |-> Levels[top].action,
                   difficulty |-> Levels[top].difficulty]

\* variant: the pipeline writes 1 (SET) where it should add 1 (INCR)
Incr_Set(store, key) == DictPut(store, key, 1)

\* pipe.incr(key) of record_failure (INCR creates a missing key at 1)
Incr(store, key) ==
    DictPut(store, key, IF key \in DOMAIN store THEN store[key] + 1 ELSE 1)

\* pipe.decr(key) of record_success
Decr(store, key) ==
    DictPut(store, key, IF key \in DOMAIN store THEN store[key] - 1 ELSE 0 - 1)

RECURSIVE DecrAll(_, _)
DecrAll(store, keys) ==
    IF keys = {} THEN store
    ELSE LET k == CHOOSE x \in keys : TRUE
         IN  DecrAll(Decr(store, k), keys \ {k})

\* the keys record_failure increments in its pipeline
FailureKeys(ip, email, fingerprint) ==
    {IpKey(ip)}
        \cup (IF email # "" THEN {EmailKey(EmailHash(email))} ELSE {})
        \cup (IF fingerprint # "" THEN {FpKey(fingerprint)} ELSE {})

\* pipe.expire(key, seconds) for each of the keys: they are dropped at time `at`
ExpireAll(ttl, keys, at) ==
    [k \in DOMAIN ttl \cup keys |-> IF k \in keys THEN at ELSE ttl[k]]

RECURSIVE IncrAll(_, _)
IncrAll(store, keys) ==
    IF keys = {} THEN store
    ELSE LET k == CHOOSE x \in keys : TRUE
         IN  IncrAll(Incr(store, k), keys \ {k})

\* secrets.token_urlsafe(32) of the proof-of-work challenge stored under id
PowChallenge(id) == "P" \o Str(id)

\* hashlib.sha256(s.encode()).hexdigest(), its first four digits: a fixed
\* function of the input, here tabulated on the inputs that matter
Sha256Hex(s) ==
    CASE s = "P12" -> <<"0", "0", "0", "0">>
      [] s = "P22" -> <<"0", "0", "7", "f">>
      [] s = "P32" -> <<"0", "0", "0", "c">>
      [] s = "P1x" -> <<"0", "a", "0", "0">>
      [] s = "P1:x" -> <<"0", "0", "0", "0">>
      [] s = "P2:2" -> <<"0", "0", "b", "1">>
      [] s = "N1:2" -> <<"0", "0", "0", "0">>
      [] s = "N2:2" -> <<"0", "0", "0", "5">>
      [] s = "Q1:2" -> <<"0", "0", "0", "0">>
      [] s = "Q2:2" -> <<"0", "0", "0", "0">>
      [] OTHER     -> <<"9", "3", "0", "0">>

\* hash_output.startswith("0" * difficulty)
StartsWithZeros(hex, difficulty) ==
    /\ difficulty <= Len(hex)
    /\ \A i \in 1..difficulty : hex[i] = "0"

MathChallenge(a, b) == [type |-> "math", answer |-> Str(a + b),
                        challenge |-> "", difficulty |-> 0]

\* variant: every stored proof-of-work challenge asks for 4 zeros
PowChallengeData_Hardest(id, difficulty) == [type |-> "pow", answer |-> "",
                                             challenge |-> PowChallenge(id),
                                             difficulty |-> 4]

PowChallengeData(id, difficulty) == [type |-> "pow", answer |-> "",
                                     challenge |-> PowChallenge(id),
                                     difficulty |-> difficulty]

NoData == [type |-> "none", answer |-> "", challenge |-> "", difficulty |-> 0]

\* verify_challenge, the comparison of the solution with the stored data
CheckSolution(data, solution) ==
    CASE data.type = "math" -> solution = data.answer
      [] data.type = "pow"  ->
            StartsWithZeros(Sha256Hex(data.challenge \o solution), data.difficulty)
      [] OTHER -> FALSE

(***************************************************************************)
(* The login handler (api/v1/endpoints/auth.py), one step per redis or     *)
(* database round trip.  mode tells which branch of the handler called     *)
(* record_failure / create_challenge and so which answer follows.          *)
(***************************************************************************)
LoginIdle == [pc |-> "idle", ip |-> "ip1", challenge_id |-> NoneId,
              solution |-> "", has_solution |-> FALSE, mode |-> "none",
              cnt |-> 0,   \* verified, flagged, replayed: history
              action |-> "none", difficulty |-> 0, data |-> NoData,
              decr |-> {}, verified |-> FALSE, flagged |-> FALSE,
              replayed |-> FALSE]

LoginFinish(r, res, note) ==
    /\ lreq' = [lreq EXCEPT ![r] = LoginIdle]
    /\ response' = [result |-> res, note |-> note]

\* No login request is in flight.  The address has failed n logins before
\* (with the same email) and the challenges issued then have expired.
LoginInitAt(n) ==
    /\ attempts = IF n = 0 THEN <<>>
                  ELSE [k \in FailureKeys("ip1", "a@x.io", "") |-> n]
    /\ blocked = {}
    /\ challenges = <<>>
    /\ nextChal = 1
    /\ lreq = [r \in Reqs |-> LoginIdle]
    /\ logins = 0
    /\ consumed = {}
    /\ solved = {}

\* redis is reachable; no proof-of-work challenge has been created yet
RedisIdleInit ==
    /\ redis_up = TRUE
    /\ pow_store = <<>>
    /\ pow_challenges = <<>>
    /\ nextPow = 1
    /\ pow_failures = [ip \in IPs |-> 0]

\* `pipe.expire(key, 86400)` of record_failure
attempts_window == 86400

\* every stored counter was last incremented so long ago that `remaining`
\* seconds of its time to live are left; no challenge has been issued
WindowInit(remaining) ==
    /\ attempts_ttl = [k \in DOMAIN attempts |-> now + remaining]
    /\ block_told = <<>>
    /\ issuedTo = <<>>

Users == {"u1", "u2"}                \* User.id

\* nobody is logged in and nothing is blacklisted
SessionInit ==
    /\ access_tokens = <<>>
    /\ blacklist = {}
    /\ user_tokens = [u \in Users |-> {}]
    /\ logged_out_all = {}

\* calculate_abuse_score has not been called yet
NoScores == [storage_abuse |-> FALSE, bandwidth_abuse |-> FALSE,
             pattern_abuse |-> FALSE, file_count_abuse |-> FALSE,
             rapid_upload |-> FALSE, overall_score |-> 0 - 1]

\* a user of tier t for whom the queries of the abuse checks return u; their
\* file of `size` bytes has not been downloaded yet
AbuseInitAt(t, u, size) ==
    /\ tier = t
    /\ usage = u
    /\ stats = [download_count |-> 0, unique_downloaders |-> 0,
                bandwidth_used |-> 0, file_size |-> size]
    /\ scores = NoScores

NoUsage == [storage_gb_days |-> 0, file_count |-> 0, hourly_uploads |-> 0]

PowIdleInit ==
    /\ RedisIdleInit
    /\ WindowInit(attempts_window)
    /\ refused = {}
    /\ SessionInit
    /\ AbuseInitAt("free", NoUsage, 1)

LoginIdleInit == LoginInitAt(0) /\ PowIdleInit

\* POST /login arrives; the challenge id it names was issued earlier
LoginStart(r) ==
    /\ lreq[r].pc = "idle"
    /\ logins < MaxLogins
    /\ logins' = logins + 1
    /\ \E ip \in LoginIPs, cid \in 0..(nextChal - 1) :
          lreq' = [lreq EXCEPT ![r] = [LoginIdle EXCEPT !.pc = "begin",
                       !.ip = ip, !.challenge_id = cid,
                       !.flagged = ip \in blocked]]
    /\ Silent
    /\ UNCHANGED <<attempts, blocked, challenges, nextChal, consumed, solved>>
    /\ UNCHANGED <<fvars, pvars, now, captcha_store, nextCap>>

\* login up to its first redis reply: the GET of verify_challenge when the
\* body carries a challenge id and a solution, else the counter reads of
\* get_threat_level
LoginBegin(r) ==
    \E sol \in Solutions :
    LET q == [lreq[r] EXCEPT !.has_solution = sol # ""] IN
    /\ q.pc = "begin"
    /\ IF q.challenge_id # NoneId /\ sol # "" THEN
           IF q.challenge_id \in DOMAIN challenges
           THEN lreq' = [lreq EXCEPT ![r] = [q EXCEPT !.pc = "verify_del",
                             !.solution = sol,
                             !.data = challenges[q.challenge_id]]]
           ELSE lreq' = [lreq EXCEPT ![r] = [q EXCEPT !.pc = "rf_incr",
                             !.mode = "challenge",
                             !.replayed =
                                 <<"asr", q.challenge_id>> \in consumed]]
       ELSE lreq' = [lreq EXCEPT ![r] = [q EXCEPT !.pc = "gate_blk",
                         !.challenge_id = NoneId,
                         !.cnt = ReadAllAttempts(attempts, q.ip)]]
    /\ Silent
    /\ UNCHANGED <<attempts, blocked, challenges, nextChal, logins, consumed,
                   solved>>
    /\ UNCHANGED <<fvars, pvars, now, captcha_store, nextCap>>

\* verify_challenge from `await redis.delete` to its return
LoginVerifyDelete(r) ==
    LET q == lreq[r]
        ok == CheckSolution(q.data, q.solution)
    IN
    /\ q.pc = "verify_del"
    /\ challenges' = DictDel(challenges, q.challenge_id)
    /\ consumed' = consumed \cup {<<"asr", q.challenge_id>>}
    /\ solved' = IF ok THEN solved \cup {q.challenge_id} ELSE solved
    /\ lreq' = [lreq EXCEPT ![r] =
                   IF ok THEN [q EXCEPT !.pc = "gate_lvl", !.verified = TRUE,
                                        !.challenge_id = NoneId,
                                        !.solution = "", !.data = NoData]
                   ELSE [q EXCEPT !.pc = "rf_incr", !.mode = "challenge",
                                  !.solution = "", !.data = NoData]]
    /\ Silent
    /\ UNCHANGED <<attempts, blocked, nextChal, logins>>
    /\ UNCHANGED <<fvars, pvars, now, captcha_store, nextCap>>

\* get_threat_level of request r, the counter reads; the handler goes on at next
ReadLevel(r, next) ==
    [lreq EXCEPT ![r].pc = next,
                 ![r].cnt = ReadAllAttempts(attempts, lreq[r].ip)]

\* get_threat_level of request r from the read of the block flag on
Threat(r) == GetThreatLevel(lreq[r].cnt, lreq[r].ip \in blocked)

\* `threat_level = await asr.get_threat_level(client_ip)` of login (counters)
LoginGateLevel(r) ==
    /\ lreq[r].pc = "gate_lvl"
    /\ lreq' = ReadLevel(r, "gate_blk")
    /\ Silent
    /\ UNCHANGED <<attempts, blocked, challenges, nextChal, logins, consumed,
                   solved>>
    /\ UNCHANGED <<fvars, pvars, now, captcha_store, nextCap>>

\* login from the block-flag read of its get_threat_level to the next await
LoginGate(r) ==
    LET q == lreq[r]
        t == Threat(r)
    IN
    /\ q.pc = "gate_blk"
    /\ lreq' = [lreq EXCEPT ![r] =
                   IF t.action # "none" /\ ~q.has_solution
                   THEN [q EXCEPT !.pc = "cc_lvl", !.mode = "gate", !.cnt = 0]
                   ELSE [q EXCEPT !.pc = "auth", !.cnt = 0,
                                  !.action = t.action]]
    /\ Silent
    /\ UNCHANGED <<attempts, blocked, challenges, nextChal, logins, consumed,
                   solved>>
    /\ UNCHANGED <<fvars, pvars, now, captcha_store, nextCap>>

\* login: the user is loaded and verify_password compares the password
LoginAuth(r) ==
    /\ lreq[r].pc = "auth"
    /\ \E credentials_ok \in BOOLEAN :
          lreq' = [lreq EXCEPT ![r] =
                      IF credentials_ok
                      THEN [lreq[r] EXCEPT !.pc = "rs_ip"]
                      ELSE [lreq[r] EXCEPT !.pc = "rf_incr", !.mode = "password"]]
    /\ Silent
    /\ UNCHANGED <<attempts, blocked, challenges, nextChal, logins, consumed,
                   solved>>
    /\ UNCHANGED <<fvars, pvars, now, captcha_store, nextCap>>

\* record_failure: `await pipe.execute()`, the increments in one transaction
RecordFailureIncr(r) ==
    /\ lreq[r].pc = "rf_incr"
    /\ \E email \in Emails, fp \in Fingerprints :
          LET keys == FailureKeys(lreq[r].ip, email, fp) IN
          /\ attempts' = IncrAll(attempts, keys)
          /\ attempts_ttl' = ExpireAll(attempts_ttl, keys, now + attempts_window)
    /\ block_told' = DictDel(block_told, lreq[r].ip)
    /\ lreq' = [lreq EXCEPT ![r].pc = "rf_lvl", ![r].challenge_id = NoneId,
                            ![r].replayed = FALSE]
    /\ Silent
    /\ UNCHANGED <<blocked, challenges, nextChal, logins, consumed, solved>>
    /\ UNCHANGED <<fvars, rvars, svars, avars, refused, issuedTo, now,
                   captcha_store, nextCap>>

\* record_failure: get_threat_level(ip), the counter reads
RecordFailureLevel(r) ==
    /\ lreq[r].pc = "rf_lvl"
    /\ lreq' = ReadLevel(r, "rf_blk")
    /\ Silent
    /\ UNCHANGED <<attempts, blocked, challenges, nextChal, logins, consumed,
                   solved>>
    /\ UNCHANGED <<fvars, pvars, now, captcha_store, nextCap>>

\* record_failure: the block-flag read and the test for permanent_block
RecordFailureThreat(r) ==
    /\ lreq[r].pc = "rf_blk"
    /\ lreq' = [lreq EXCEPT ![r].pc = IF Threat(r).action = "permanent_block"
                                      THEN "rf_block" ELSE "cc_lvl",
                            ![r].cnt = 0]
    /\ Silent
    /\ UNCHANGED <<attempts, blocked, challenges, nextChal, logins, consumed,
                   solved>>
    /\ UNCHANGED <<fvars, pvars, now, captcha_store, nextCap>>

\* record_failure: `await redis.setex("asr:blocked:<ip>", 30 days, "1")`
RecordFailureBlock(r) ==
    /\ lreq[r].pc = "rf_block"
    /\ blocked' = blocked \cup {lreq[r].ip}
    /\ lreq' = [lreq EXCEPT ![r].pc = "cc_lvl"]
    /\ Silent
    /\ UNCHANGED <<attempts, challenges, nextChal, logins, consumed, solved>>
    /\ UNCHANGED <<fvars, pvars, now, captcha_store, nextCap>>

\* create_challenge: get_threat_level(identifier), the counter reads
CreateChallengeLevel(r) ==
    /\ lreq[r].pc = "cc_lvl"
    /\ lreq' = ReadLevel(r, "cc_blk")
    /\ Silent
    /\ UNCHANGED <<attempts, blocked, challenges, nextChal, logins, consumed,
                   solved>>
    /\ UNCHANGED <<fvars, pvars, now, captcha_store, nextCap>>

\* what login answers once create_challenge has returned `kind`
\* ("" = None): 429 or the challenge body for a failed challenge and for
\* the gate, always 401 after a wrong password
LoginAnswer(mode, kind) ==
    IF mode = "password" THEN "unauthorized"
    ELSE IF kind = "" THEN "too_many_requests"
    ELSE "challenge"

\* create_challenge from the block-flag read to its setex or its return
CreateChallengeThreat(r) ==
    LET q == lreq[r]
        t == Threat(r)
    IN
    /\ q.pc = "cc_blk"
    /\ CASE t.action \in {"simple_math", "proof_of_work"} ->
                /\ lreq' = [lreq EXCEPT ![r] = [q EXCEPT !.pc = "cc_store",
                                !.cnt = 0, !.action = t.action,
                                !.difficulty = t.difficulty]]
                /\ Silent
         [] t.action = "none" -> LoginFinish(r, LoginAnswer(q.mode, "none"), "none")
         [] t.action = "temp_block" ->
                LoginFinish(r, LoginAnswer(q.mode, "temp_block"), "temp_block")
         [] OTHER -> LoginFinish(r, LoginAnswer(q.mode, ""), "blocked")
    /\ block_told' = IF t.action = "temp_block"
                         /\ LoginAnswer(q.mode, "temp_block") = "challenge"
                      THEN DictPut(block_told, q.ip,
                                   [at |-> now, retry_after |-> t.difficulty])
                      ELSE block_told
    /\ UNCHANGED <<attempts, blocked, challenges, nextChal, logins, consumed,
                   solved>>
    /\ UNCHANGED <<fvars, rvars, svars, avars, refused, attempts_ttl,
                   issuedTo, now, captcha_store, nextCap>>

\* create_challenge: `await redis.setex("asr:challenge:<id>", ttl, ...)`
CreateChallengeStore(r) ==
    LET q == lreq[r] IN
    /\ q.pc = "cc_store"
    /\ nextChal <= MaxChallenges
    /\ IF q.action = "simple_math"
       THEN \E a \in 1..OperandMax, b \in 1..OperandMax :
               challenges' = DictPut(challenges, nextChal, MathChallenge(a, b))
       ELSE challenges' = DictPut(challenges, nextChal,
                                  PowChallengeData(nextChal, q.difficulty))
    /\ issuedTo' = DictPut(issuedTo, nextChal, q.ip)
    /\ nextChal' = nextChal + 1
    /\ LoginFinish(r, LoginAnswer(q.mode, q.action), q.action)
    /\ UNCHANGED <<attempts, blocked, logins, consumed, solved>>
    /\ UNCHANGED <<fvars, rvars, svars, avars, refused, attempts_ttl,
                   block_told, now, captcha_store, nextCap>>

\* record_success: `current = await redis.get(key)` of one key; a DECR is
\* queued when the value read is positive
RecordSuccessRead(r, next, key) ==
    [lreq EXCEPT ![r].pc = next,
                 ![r].decr = IF key \in DOMAIN attempts /\ attempts[key] > 0
                             THEN @ \cup {key} ELSE @]

RecordSuccessIp(r) ==
    /\ lreq[r].pc = "rs_ip"
    /\ lreq' = RecordSuccessRead(r, "rs_email", IpKey(lreq[r].ip))
    /\ Silent
    /\ UNCHANGED <<attempts, blocked, challenges, nextChal, logins, consumed,
                   solved>>
    /\ UNCHANGED <<fvars, pvars, now, captcha_store, nextCap>>

RecordSuccessEmail(r) ==
    /\ lreq[r].pc = "rs_email"
    /\ \E email \in Emails :
          lreq' = RecordSuccessRead(r, "rs_exec", EmailKey(EmailHash(email)))
    /\ Silent
    /\ UNCHANGED <<attempts, blocked, challenges, nextChal, logins, consumed,
                   solved>>
    /\ UNCHANGED <<fvars, pvars, now, captcha_store, nextCap>>

\* record_success: `await pipe.execute()`, then login returns the tokens
RecordSuccessExec(r) ==
    /\ lreq[r].pc = "rs_exec"
    /\ attempts' = DecrAll(attempts, lreq[r].decr)
    /\ LoginFinish(r, "logged_in", "none")
    /\ UNCHANGED <<blocked, challenges, nextChal, logins, consumed, solved>>
    /\ UNCHANGED <<fvars, pvars, now, captcha_store, nextCap>>

\* redis drops asr:challenge:<id> when its time to live (challenge_ttl) has passed
ExpireChallenge(id) ==
    /\ id \in DOMAIN challenges
    /\ challenges' = DictDel(challenges, id)
    /\ Silent
    /\ UNCHANGED <<attempts, blocked, nextChal, lreq, logins, consumed,
                   solved>>
    /\ UNCHANGED <<fvars, pvars, now, captcha_store, nextCap>>

(***************************************************************************)
(* The captcha endpoints (api/v1/endpoints/captcha.py): synchronous        *)
(* handlers over their own MathCaptcha.                                    *)
(***************************************************************************)
\* GET /captcha/generate
CaptchaGenerate ==
    /\ nextCap <= MaxCaptchas
    /\ \E a \in 1..OperandMax, b \in 1..OperandMax, op \in CaptchaOps :
          captcha_store' = GenerateCaptcha(captcha_store, nextCap, a, b, op, now)
    /\ nextCap' = nextCap + 1
    /\ response' = [result |-> "captcha", note |-> "none"]
    /\ UNCHANGED now
    /\ UNCHANGED <<fvars, lvars, pvars>>

\* POST /captcha/verify with the id of a captcha issued earlier
CaptchaVerify ==
    \E cid \in 1..(nextCap - 1), ans \in CaptchaInputs :
    LET v == VerifyCaptcha(captcha_store, cid, ans, now) IN
    /\ captcha_store' = v.store
    /\ consumed' = IF v.found THEN consumed \cup {<<"captcha", cid>>}
                   ELSE consumed
    /\ response' = [result |-> IF v.ok THEN "valid" ELSE "invalid",
                    note |-> IF <<"captcha", cid>> \in consumed
                             THEN "consumed" ELSE "fresh"]
    /\ UNCHANGED <<now, nextCap>>
    /\ UNCHANGED <<fvars, pvars, attempts, blocked, challenges, nextChal, lreq, logins,
                   solved>>

(***************************************************************************)
(* The login flow: two login requests at a time against redis.             *)
(***************************************************************************)
InitAttempts == {2, 4, 49}   \* failed logins recorded before the behaviour

LoginInit ==
    /\ FileInit({4})
    /\ \E n \in InitAttempts : LoginInitAt(n)
    /\ PowIdleInit

\* one step of the login request r in flight
LoginStep(r) ==
    \/ LoginBegin(r)
    \/ LoginVerifyDelete(r)
    \/ LoginGateLevel(r)
    \/ LoginGate(r)
    \/ LoginAuth(r)
    \/ RecordFailureIncr(r)
    \/ RecordFailureLevel(r)
    \/ RecordFailureThreat(r)
    \/ RecordFailureBlock(r)
    \/ CreateChallengeLevel(r)
    \/ CreateChallengeThreat(r)
    \/ CreateChallengeStore(r)
    \/ RecordSuccessIp(r)
    \/ RecordSuccessEmail(r)
    \/ RecordSuccessExec(r)

LoginNext ==
    \/ \E id \in 1..MaxChallenges : ExpireChallenge(id)
    \/ \E r \in Reqs : LoginStart(r) \/ LoginStep(r)

SpecLogin == LoginInit /\ [][LoginNext]_vars

(***************************************************************************)
(* The escalation ladder: one login request at a time from an address     *)
(* with any number of recorded failures up to MaxCount.                    *)
(***************************************************************************)
SeqReqs == {"r1"}

LadderInit ==
    /\ FileInit({4})
    /\ \E n \in 0..MaxCount : LoginInitAt(n)
    /\ PowIdleInit

LadderNext ==
    \/ \E id \in 1..MaxChallenges : ExpireChallenge(id)
    \/ \E r \in SeqReqs : LoginStart(r) \/ LoginStep(r)

SpecLadder == LadderInit /\ [][LadderNext]_vars

(***************************************************************************)
(* The identifiers of a request: one login request at a time; the address *)
(* and the email have each failed before, the email also from other        *)
(* addresses, so their counters differ.                                    *)
(***************************************************************************)
IdentInitAt(n, m) ==
    /\ attempts = (IpKey("ip1") :> n) @@ (EmailKey(EmailHash("a@x.io")) :> m)
    /\ blocked = {}
    /\ challenges = <<>>
    /\ nextChal = 1
    /\ lreq = [r \in Reqs |-> LoginIdle]
    /\ logins = 0
    /\ consumed = {}
    /\ solved = {}

IdentInit ==
    /\ FileInit({4})
    /\ \E n \in InitAttempts, m \in InitAttempts : IdentInitAt(n, m)
    /\ PowIdleInit

SpecIdentifiers == IdentInit /\ [][LadderNext]_vars

(***************************************************************************)
(* The two challenge verifiers: the login requests and the captcha         *)
(* endpoints.  The verifiers share no state (redis keys there, the dict of *)
(* the captcha service here), so a behaviour that uses both is an          *)
(* interleaving of a behaviour of each: a behaviour of this specification  *)
(* uses one of them.                                                       *)
(***************************************************************************)
\* a login request arrives in a behaviour that has used no captcha endpoint
SoloLoginStart(r) == nextCap = 1 /\ LoginStart(r)

\* the captcha endpoints are called in a behaviour without login requests
SoloCaptchaGenerate == logins = 0 /\ CaptchaGenerate

SoloCaptchaVerify == logins = 0 /\ CaptchaVerify

\* the clock is read by the captcha service alone (redis keeps its own
\* time to live, see ExpireChallenge): time passes once a captcha exists
SoloTick == logins = 0 /\ nextCap > 1 /\ Tick(LongTick)

ChallengeNext ==
    \/ \E id \in 1..MaxChallenges : ExpireChallenge(id)
    \/ \E r \in Reqs : SoloLoginStart(r) \/ LoginStep(r)
    \/ SoloTick
    \/ SoloCaptchaGenerate
    \/ SoloCaptchaVerify

SpecChallenge == LoginInit /\ [][ChallengeNext]_vars

(***************************************************************************)
(* The password gate: verify-password, the direct download and             *)
(* initiate-download on the protected file.  The client address is only    *)
(* bound into the token, so one address suffices here.                     *)
(***************************************************************************)
PasswordClients == {"ip1"}
ProtectedFiles == Files \ OpenFiles
MaxAttemptsChoices == {2, 4}    \* max_password_attempts the uploader chose

PasswordInit == FileInit(MaxAttemptsChoices) /\ LoginIdleInit

PasswordNext ==
    \E r \in Reqs :
        \/ StartVerifyPassword(r, ProtectedFiles)
        \/ StartDownloadFile(r, ProtectedFiles)
        \/ StartInitiateDownload(r, ProtectedFiles)
        \/ VerifyPasswordCheck(r, PasswordClients)
        \/ CommitFailedAttempt(r)
        \/ VerifyPasswordAfterSleep(r)
        \/ CommitReset(r)
        \/ MintAfterPassword(r)
        \/ DownloadFileCheck(r)
        \/ DownloadFileAfterSleep(r)
        \/ DownloadFileServe(r)
        \/ InitiateDownloadCheck(r, PasswordClients)

SpecPassword == PasswordInit /\ [][PasswordNext]_vars

(***************************************************************************)
(* The token life cycle: minting by initiate-download, redemption, expiry. *)
(* Tokens are minted for one address and redeemed from any address.        *)
(***************************************************************************)
MintClients == {"ip1"}

TokenInit == FileInit({4}) /\ LoginIdleInit

TokenNext ==
    \/ Tick(TickSeconds)
    \/ \E r \in Reqs :
        \/ StartInitiateDownload(r, Files)
        \/ InitiateDownloadCheck(r, MintClients)
        \/ StartDownloadWithToken(r)
        \/ DownloadWithTokenVerify(r)

SpecToken == TokenInit /\ [][TokenNext]_vars

(***************************************************************************)
(* The stand-alone proof-of-work verifiers: ServerSidePoW                  *)
(* (core/server_pow.py) over a synchronous redis client, as POST           *)
(* /pow/challenge and /pow/verify call it, and ProofOfWorkCaptcha          *)
(* (core/proof_of_work.py) over its dict.  Their methods contain no await: *)
(* a call is one step.                                                     *)
(***************************************************************************)
Resources == {"f1"}                  \* data.resource
PowSolutions == {"2", "x"}           \* data.solution / nonce

\* ServerSidePoW._get_difficulty_for_ip
GetDifficultyForIp(failure_count) ==
    IF failure_count > 50 THEN 6
    ELSE IF failure_count > 20 THEN 5
    ELSE IF failure_count > 10 THEN 4
    ELSE 3

\* ServerSidePoW.create_challenge: the record stored under pow:<challenge_id>
PowCreateChallenge(store, challenge_id, ip, resource, failure_count, t_now) ==
    DictPut(store, challenge_id,
            [ip |-> ip, resource |-> resource,
             nonce |-> "N" \o Str(challenge_id), timestamp |-> t_now,
             difficulty |-> GetDifficultyForIp(failure_count),
             used |-> FALSE])

\* ServerSidePoW.verify_challenge; hashed tells whether the call reached the
\* comparison of the digest
PowVerifyChallenge(store, challenge_id, solution, ip, resource, t_now) ==
    LET no == [ok |-> FALSE, hashed |-> FALSE, store |-> store] IN
    IF challenge_id \notin DOMAIN store THEN no
    ELSE LET challenge_data == store[challenge_id]
             is_valid == StartsWithZeros(
                            Sha256Hex(challenge_data.nonce \o ":" \o solution),
                            challenge_data.difficulty)
         IN  IF challenge_data.used THEN no
             ELSE IF challenge_data.ip # ip THEN no
             ELSE IF challenge_data.resource # resource THEN no
             ELSE IF t_now - challenge_data.timestamp > pow_challenge_ttl THEN no
             ELSE IF is_valid
                  THEN [ok |-> TRUE, hashed |-> TRUE,
                        store |-> [store EXCEPT ![challenge_id].used = TRUE]]
             ELSE [ok |-> FALSE, hashed |-> TRUE, store |-> store]

\* ProofOfWorkCaptcha._cleanup_expired
CleanupExpiredProofs(chals, t_now) ==
    LET expired == {cid \in DOMAIN chals :
                       t_now - chals[cid].timestamp > pow_expiry}
    IN  [x \in DOMAIN chals \ expired |-> chals[x]]

\* ProofOfWorkCaptcha.generate_challenge
GenerateProofChallenge(chals, challenge_id, t_now) ==
    CleanupExpiredProofs(
        DictPut(chals, challenge_id,
                [nonce_prefix |-> "Q" \o Str(challenge_id),
                 timestamp |-> t_now, difficulty |-> pow_difficulty]),
        t_now)

\* ProofOfWorkCaptcha.verify_proof
VerifyProof(chals, challenge_id, nonce, t_now) ==
    IF challenge_id \notin DOMAIN chals
        THEN [ok |-> FALSE, hashed |-> FALSE, chals |-> chals]
    ELSE LET challenge_data == chals[challenge_id]
             is_valid == StartsWithZeros(
                            Sha256Hex(challenge_data.nonce_prefix \o ":" \o nonce),
                            challenge_data.difficulty)
         IN  IF t_now - challenge_data.timestamp > pow_expiry
                 THEN [ok |-> FALSE, hashed |-> FALSE,
                       chals |-> DictDel(chals, challenge_id)]
             ELSE [ok |-> is_valid, hashed |-> TRUE,
                   chals |-> IF is_valid THEN DictDel(chals, challenge_id)
                             ELSE chals]

\* history: what a verification of id by the verifier `kind` follows
PowCase(kind, id) ==
    IF <<kind, id>> \in consumed THEN "after_reject" ELSE "fresh"

\* POST /pow/challenge
PowChallengeCall ==
    /\ nextPow <= MaxPow
    /\ \E ip \in MintClients, resource \in Resources :
          pow_store' = PowCreateChallenge(pow_store, nextPow, ip, resource,
                                          pow_failures[ip], now)
    /\ nextPow' = nextPow + 1
    /\ response' = [result |-> "pow_challenge", note |-> "none"]
    /\ UNCHANGED <<redis_up, pow_challenges, pow_failures>>
    /\ UNCHANGED xvars
    /\ UNCHANGED <<fvars, lvars, now, captcha_store, nextCap>>

\* POST /pow/verify: verify_challenge, then record_failed_attempt when the
\* solution was not accepted
PowVerifyCall ==
    \E id \in 1..(nextPow - 1), sol \in PowSolutions, ip \in IPs,
       resource \in Resources :
    LET v == PowVerifyChallenge(pow_store, id, sol, ip, resource, now) IN
    /\ ~v.ok => pow_failures[ip] < MaxPowFailures
    /\ pow_store' = v.store
    /\ pow_failures' = IF v.ok THEN pow_failures
                       ELSE [pow_failures EXCEPT ![ip] = @ + 1]
    /\ consumed' = IF v.hashed /\ ~v.ok THEN consumed \cup {<<"pow_rejected", id>>}
                   ELSE consumed
    /\ response' = [result |-> IF v.ok THEN "valid" ELSE "invalid",
                    note |-> PowCase("pow_rejected", id)]
    /\ UNCHANGED <<redis_up, pow_challenges, nextPow>>
    /\ UNCHANGED xvars
    /\ UNCHANGED <<fvars, now, captcha_store, nextCap>>
    /\ UNCHANGED <<attempts, blocked, challenges, nextChal, lreq, logins,
                   solved>>

\* redis drops pow:<id> when its time to live has passed
ExpirePow(id) ==
    /\ id \in DOMAIN pow_store
    /\ pow_store' = DictDel(pow_store, id)
    /\ Silent
    /\ UNCHANGED <<redis_up, pow_challenges, nextPow, pow_failures>>
    /\ UNCHANGED xvars
    /\ UNCHANGED <<fvars, lvars, now, captcha_store, nextCap>>

\* a call of ProofOfWorkCaptcha.generate_challenge
ProofGenerateCall ==
    /\ nextPow <= MaxPow
    /\ pow_challenges' = GenerateProofChallenge(pow_challenges, nextPow, now)
    /\ nextPow' = nextPow + 1
    /\ response' = [result |-> "proof_challenge", note |-> "none"]
    /\ UNCHANGED <<redis_up, pow_store, pow_failures>>
    /\ UNCHANGED xvars
    /\ UNCHANGED <<fvars, lvars, now, captcha_store, nextCap>>

\* a call of ProofOfWorkCaptcha.verify_proof
ProofVerifyCall ==
    \E id \in 1..(nextPow - 1), nonce \in PowSolutions :
    LET v == VerifyProof(pow_challenges, id, nonce, now) IN
    /\ pow_challenges' = v.chals
    /\ consumed' = IF v.hashed /\ ~v.ok THEN consumed \cup {<<"proof_rejected", id>>}
                   ELSE consumed
    /\ response' = [result |-> IF v.ok THEN "valid" ELSE "invalid",
                    note |-> PowCase("proof_rejected", id)]
    /\ UNCHANGED <<redis_up, pow_store, nextPow, pow_failures>>
    /\ UNCHANGED xvars
    /\ UNCHANGED <<fvars, now, captcha_store, nextCap>>
    /\ UNCHANGED <<attempts, blocked, challenges, nextChal, lreq, logins,
                   solved>>

\* time passes beyond the expiry of the challenges
PowTick ==
    /\ now < LongTick
    /\ now' = now + LongTick
    /\ Silent
    /\ UNCHANGED <<captcha_store, nextCap>>
    /\ UNCHANGED <<fvars, lvars, pvars>>

PowInit == FileInit({4}) /\ LoginIdleInit

PowNext ==
    \/ PowChallengeCall
    \/ PowVerifyCall
    \/ \E id \in 1..MaxPow : ExpirePow(id)
    \/ ProofGenerateCall
    \/ ProofVerifyCall
    \/ PowTick

SpecPow == PowInit /\ [][PowNext]_vars

(***************************************************************************)
(* The login flow during a redis outage: one login request at a time; the *)
(* server stops answering and comes back at any moment.  A redis command   *)
(* sent while it is down raises redis.exceptions.ConnectionError.          *)
(***************************************************************************)
RedisDown ==
    /\ redis_up
    /\ redis_up' = FALSE
    /\ Silent
    /\ UNCHANGED <<pow_store, pow_challenges, nextPow, pow_failures>>
    /\ UNCHANGED xvars
    /\ UNCHANGED <<fvars, lvars, now, captcha_store, nextCap>>

RedisUp ==
    /\ ~redis_up
    /\ redis_up' = TRUE
    /\ Silent
    /\ UNCHANGED <<pow_store, pow_challenges, nextPow, pow_failures>>
    /\ UNCHANGED xvars
    /\ UNCHANGED <<fvars, lvars, now, captcha_store, nextCap>>

\* where the next step of a login request is a redis command (at "auth" it
\* is the database query and verify_password)
RedisPcs == {"begin", "verify_del", "gate_lvl", "gate_blk", "rf_incr",
             "rf_lvl", "rf_blk", "rf_block", "cc_lvl", "cc_blk", "cc_store",
             "rs_ip", "rs_email", "rs_exec"}

\* a step of login that needs no redis, or any step while redis answers
OutageStep(r) ==
    /\ redis_up \/ lreq[r].pc \notin RedisPcs
    /\ LoginStep(r)

\* verify_challenge: `await redis.delete` raises inside the try block,
\* `except Exception: return False`; login goes on to record_failure
LoginDeleteError(r) ==
    /\ ~redis_up
    /\ lreq[r].pc = "verify_del"
    /\ lreq' = [lreq EXCEPT ![r] = [lreq[r] EXCEPT !.pc = "rf_incr",
                    !.mode = "challenge", !.solution = "", !.data = NoData]]
    /\ Silent
    /\ UNCHANGED <<attempts, blocked, challenges, nextChal, logins, consumed,
                   solved>>
    /\ UNCHANGED <<fvars, pvars, now, captcha_store, nextCap>>

\* any other redis command of login raises: the exception leaves the
\* handler (before line 233) or is turned into HTTPException 500 by
\* `except Exception` (lines 286-293)
LoginRedisError(r) ==
    /\ ~redis_up
    /\ lreq[r].pc \in RedisPcs \ {"verify_del"}
    /\ LoginFinish(r, "internal_error", "outage")
    /\ UNCHANGED <<attempts, blocked, challenges, nextChal, logins, consumed,
                   solved>>
    /\ UNCHANGED <<fvars, pvars, now, captcha_store, nextCap>>

OutageNext ==
    \/ RedisDown
    \/ RedisUp
    \/ \E r \in SeqReqs :
          \/ LoginStart(r)
          \/ OutageStep(r)
          \/ LoginDeleteError(r)
          \/ LoginRedisError(r)

SpecOutage == LoginInit /\ [][OutageNext]_vars

(***************************************************************************)
(* Client errors in the login body: one login request at a time; the body *)
(* may name a challenge id that create_challenge never issued.            *)
(***************************************************************************)
\* a challenge_id string that no create_challenge call has returned
UnissuedId == MaxChallenges + 1

\* POST /login arrives with a challenge id that was never issued
LoginStartUnissued(r) ==
    /\ lreq[r].pc = "idle"
    /\ logins < MaxLogins
    /\ logins' = logins + 1
    /\ \E ip \in LoginIPs :
          lreq' = [lreq EXCEPT ![r] = [LoginIdle EXCEPT !.pc = "begin",
                       !.ip = ip, !.challenge_id = UnissuedId,
                       !.flagged = ip \in blocked]]
    /\ Silent
    /\ UNCHANGED <<attempts, blocked, challenges, nextChal, consumed, solved>>
    /\ UNCHANGED <<fvars, pvars, now, captcha_store, nextCap>>

ValidationNext ==
    \/ \E id \in 1..MaxChallenges : ExpireChallenge(id)
    \/ \E r \in SeqReqs :
          \/ LoginStart(r)
          \/ LoginStartUnissued(r)
          \/ LoginStep(r)

SpecValidation == LoginInit /\ [][ValidationNext]_vars

(***************************************************************************)
(* Replay and theft: a consumed challenge is submitted again to login, a   *)
(* token is redeemed from a foreign address or for another file.  Login    *)
(* and the token manager share no state, so a behaviour of this            *)
(* specification uses one of them.                                         *)
(***************************************************************************)
\* a login request arrives in a behaviour without download requests
ReplayLoginStart(r) ==
    /\ nextTok = 1 /\ now = 0 /\ \A x \in Reqs : req[x].pc = "idle"
    /\ LoginStart(r)

\* a step of the token life cycle in a behaviour without login requests
TheftTokenStep(r) ==
    /\ logins = 0
    /\ \/ StartInitiateDownload(r, Files)
       \/ InitiateDownloadCheck(r, MintClients)
       \/ StartDownloadWithToken(r)
       \/ DownloadWithTokenVerify(r)

TheftTick == logins = 0 /\ Tick(TickSeconds)

ViolationNext ==
    \/ \E id \in 1..MaxChallenges : ExpireChallenge(id)
    \/ \E r \in SeqReqs : ReplayLoginStart(r) \/ LoginStep(r)
    \/ \E r \in Reqs : TheftTokenStep(r)
    \/ TheftTick

SpecViolation == LoginInit /\ [][ViolationNext]_vars

(***************************************************************************)
(* AbuseDetector (core/abuse_prevention.py) and the download statistics    *)
(* that download_file keeps (api/v1/endpoints/download.py).  The ratios    *)
(* are compared in integers: u / c < p / 100 as u * 100 < p * c, which is  *)
(* what the float comparison yields for counts of this size.               *)
(***************************************************************************)
Tiers == {"free", "pro", "max"}      \* UserTier

Inf == "inf"                         \* float('inf')

\* AbuseDetector.THRESHOLDS
MaxStorageDays(t) ==
    CASE t = "free" -> 1 * 24
      [] t = "pro"  -> 300 * 7
      [] t = "max"  -> 1024 * 20

BandwidthMultiplier(t) == Inf

\* unique_downloaders_ratio, in percent
UniqueDownloadersRatio(t) ==
    CASE t = "free" -> 30
      [] t = "pro"  -> 10
      [] t = "max"  -> 5

MaxFileCount(t) ==
    CASE t = "free" -> 50
      [] t = "pro"  -> 500
      [] t = "max"  -> 5000

\* hourly_limits of check_rapid_upload_pattern
HourlyLimit(t) ==
    CASE t = "free" -> 5
      [] t = "pro"  -> 20
      [] t = "max"  -> 50

\* The checks: TRUE is the first component (ok) of the tuple they return.
CheckStorageAbuse(t, u) == ~(u.storage_gb_days > MaxStorageDays(t))

\* multiplier = bandwidth_used / file_size; `multiplier > threshold` is
\* never true of float('inf'), else it is compared as
\* bandwidth_used > threshold * file_size
CheckBandwidthAbuse(file, t) ==
    IF file.bandwidth_used = 0 THEN TRUE
    ELSE ~(IF BandwidthMultiplier(t) = Inf THEN FALSE
           ELSE file.bandwidth_used > BandwidthMultiplier(t) * file.file_size)

CheckDownloadPatternAbuse(file, t) ==
    IF file.download_count < 10 THEN TRUE
    ELSE IF file.unique_downloaders = 0 THEN FALSE
    ELSE ~(file.unique_downloaders * 100
               < UniqueDownloadersRatio(t) * file.download_count)

CheckFileCountAbuse(t, u) == ~(u.file_count >= MaxFileCount(t))

CheckRapidUploadPattern(t, u) == ~(u.hourly_uploads > HourlyLimit(t))

\* calculate_abuse_score for a user of tier t who owns the one file
CalculateAbuseScore(t, u, file) ==
    LET storage == ~CheckStorageAbuse(t, u)
        file_count == ~CheckFileCountAbuse(t, u)
        rapid == ~CheckRapidUploadPattern(t, u)
        \* select(File).where(File.bandwidth_used > File.file_size * 10)
        bandwidth == file.bandwidth_used > file.file_size * 10
    IN  [storage_abuse |-> storage, bandwidth_abuse |-> bandwidth,
         pattern_abuse |-> FALSE, file_count_abuse |-> file_count,
         rapid_upload |-> rapid,
         overall_score |-> (IF storage THEN 30 ELSE 0)
                           + (IF file_count THEN 20 ELSE 0)
                           + (IF rapid THEN 25 ELSE 0)
                           + (IF bandwidth THEN 25 ELSE 0)]

\* download_file, lines 160-172: the statistics of one more download
CountDownload(file) ==
    LET download_count == file.download_count + 1 IN
    [file EXCEPT
        !.download_count = download_count,
        !.bandwidth_used = file.bandwidth_used + file.file_size,
        !.unique_downloaders =
            IF file.unique_downloaders = 0 THEN 1
            ELSE IF download_count % 5 = 0 THEN file.unique_downloaders + 1
            ELSE file.unique_downloaders]

\* GET /download/{code} of the file (no password, no download limit), one
\* request at a time, each from an address that has not downloaded it before
DownloadCounted ==
    /\ stats.download_count < MaxDownloads
    /\ stats' = CountDownload(stats)
    /\ response' = [result |-> "served", note |-> "none"]
    /\ UNCHANGED <<tier, usage, scores>>
    /\ UNCHANGED <<fvars, lvars, rvars, tvars, svars, refused, now,
                   captcha_store, nextCap>>

\* a call of calculate_abuse_score(user, db)
AbuseScoreCall ==
    /\ scores' = CalculateAbuseScore(tier, usage, stats)
    /\ response' = [result |-> "scores", note |-> "none"]
    /\ UNCHANGED <<tier, usage, stats>>
    /\ UNCHANGED <<fvars, lvars, rvars, tvars, svars, refused, now,
                   captcha_store, nextCap>>

\* a call of check_download_pattern_abuse(file, user_tier)
PatternCheckCall ==
    /\ response' = [result |-> IF CheckDownloadPatternAbuse(stats, tier)
                               THEN "pattern_ok" ELSE "pattern_abuse",
                    note |-> "none"]
    /\ UNCHANGED avars
    /\ UNCHANGED <<fvars, lvars, rvars, tvars, svars, refused, now,
                   captcha_store, nextCap>>

\* what the queries of check_storage_abuse, check_file_count_abuse and
\* check_rapid_upload_pattern return for the user: values on both sides of
\* the thresholds
Usages == [storage_gb_days : {0, 25, 2101}, file_count : {0, 50, 5000},
           hourly_uploads : {0, 6, 51}]

FileSizes == {1, 3}                  \* File.file_size

AbuseInit ==
    /\ FileInit({4})
    /\ LoginInitAt(0)
    /\ RedisIdleInit
    /\ WindowInit(attempts_window)
    /\ refused = {}
    /\ SessionInit
    /\ \E t \in Tiers, u \in Usages, size \in FileSizes : AbuseInitAt(t, u, size)

AbuseNext ==
    \/ DownloadCounted
    \/ AbuseScoreCall
    \/ PatternCheckCall

SpecAbuse == AbuseInit /\ [][AbuseNext]_vars

(***************************************************************************)
(* Sessions: access tokens, TokenBlacklist (core/token_blacklist.py) and   *)
(* get_current_user (api/deps.py), one call at a time.  The access tokens  *)
(* of the model have not reached their exp: every ttl computed is > 0.     *)
(***************************************************************************)
Jtis == 1..MaxSessions               \* the jti claim of an access token

\* TokenBlacklist.is_blacklisted
IsBlacklisted(bl, jti) == jti \in bl

\* TokenBlacklist.add_token: setex of token_blacklist:<jti>, then sadd of the
\* jti to user_tokens:<user_id>
AddToken(bl, ut, jti, user_id) ==
    [blacklist |-> bl \cup {jti},
     user_tokens |-> [ut EXCEPT ![user_id] = @ \cup {jti}]]

\* TokenBlacklist.revoke_all_user_tokens: for each jti in
\* user_tokens:<user_id> whose blacklist key has a ttl > 0 (the key exists),
\* setex of that key again
RevokeAllUserTokens(bl, ut, user_id) ==
    bl \cup {jti \in ut[user_id] : jti \in bl}

\* get_current_user for the token with this jti: the user id, or "" for None
GetCurrentUser(jti) ==
    IF IsBlacklisted(blacklist, jti) THEN "" ELSE access_tokens[jti]

\* login (or register, refresh) returns create_access_token({"sub": user.id})
SessionLogin(u) ==
    LET jti == Cardinality(DOMAIN access_tokens) + 1 IN
    /\ jti <= MaxSessions
    /\ access_tokens' = DictPut(access_tokens, jti, u)
    /\ response' = [result |-> "access_token", note |-> "none"]
    /\ UNCHANGED <<blacklist, user_tokens, logged_out_all>>
    /\ UNCHANGED <<fvars, lvars, rvars, tvars, avars, refused, now,
                   captcha_store, nextCap>>

\* a request to an endpoint behind get_current_user with the token jti
AuthedRequest(jti) ==
    /\ jti \in DOMAIN access_tokens
    /\ response' = [result |-> IF GetCurrentUser(jti) = "" THEN "rejected"
                               ELSE "user",
                    note |-> IF jti \in logged_out_all THEN "after_logout_all"
                             ELSE "none"]
    /\ UNCHANGED svars
    /\ UNCHANGED <<fvars, lvars, rvars, tvars, avars, refused, now,
                   captcha_store, nextCap>>

\* POST /logout with the token jti
Logout(jti) ==
    /\ jti \in DOMAIN access_tokens
    /\ GetCurrentUser(jti) # ""
    /\ LET a == AddToken(blacklist, user_tokens, jti, GetCurrentUser(jti)) IN
       /\ blacklist' = a.blacklist
       /\ user_tokens' = a.user_tokens
    /\ response' = [result |-> "logged_out", note |-> "none"]
    /\ UNCHANGED <<access_tokens, logged_out_all>>
    /\ UNCHANGED <<fvars, lvars, rvars, tvars, avars, refused, now,
                   captcha_store, nextCap>>

\* POST /logout-all with the token jti (change_password and the password
\* reset make the same call)
LogoutAllSessions(jti) ==
    /\ jti \in DOMAIN access_tokens
    /\ GetCurrentUser(jti) # ""
    /\ blacklist' = RevokeAllUserTokens(blacklist, user_tokens,
                                        GetCurrentUser(jti))
    /\ logged_out_all' = logged_out_all \cup
          {j \in DOMAIN access_tokens : access_tokens[j] = GetCurrentUser(jti)}
    /\ response' = [result |-> "logged_out_all", note |-> "none"]
    /\ UNCHANGED <<access_tokens, user_tokens>>
    /\ UNCHANGED <<fvars, lvars, rvars, tvars, avars, refused, now,
                   captcha_store, nextCap>>

SessionNext ==
    \/ \E u \in Users : SessionLogin(u)
    \/ \E jti \in Jtis : AuthedRequest(jti) \/ Logout(jti) \/ LogoutAllSessions(jti)

SpecSession == PowInit /\ [][SessionNext]_vars

(***************************************************************************)
(* The rolling window of the ledger: one login request at a time while     *)
(* time passes.  redis drops a key when its time to live has run out; the  *)
(* counters were last incremented either just now or so long ago that      *)
(* ShortWait seconds of their 24 hours are left.                           *)
(***************************************************************************)
\* d seconds pass: redis drops the counters whose time to live has run out
\* and, when d reaches challenge_ttl, the stored challenges
Elapse(d) ==
    LET kept == {k \in DOMAIN attempts :
                    k \in DOMAIN attempts_ttl => attempts_ttl[k] > now + d}
    IN
    /\ now' = now + d
    /\ attempts' = [k \in kept |-> attempts[k]]
    /\ attempts_ttl' = [k \in kept \cap DOMAIN attempts_ttl |-> attempts_ttl[k]]
    /\ challenges' = IF d >= challenge_ttl THEN <<>> ELSE challenges
    /\ Silent
    /\ UNCHANGED <<blocked, nextChal, lreq, logins, consumed, solved>>
    /\ UNCHANGED <<block_told, issuedTo>>
    /\ UNCHANGED <<fvars, rvars, svars, avars, refused, captcha_store, nextCap>>

\* a short time passes, early in the behaviour
WaitShort ==
    /\ now < MaxWaits * ShortWait
    /\ Elapse(ShortWait)

\* the client that was told a timed block waits the announced retry_after
\* before it sends its next request
WaitRetry(ip) ==
    /\ \A r \in Reqs : lreq[r].pc = "idle"
    /\ ip \in DOMAIN block_told
    /\ now < block_told[ip].at + block_told[ip].retry_after
    /\ Elapse(block_told[ip].retry_after)

WindowRemaining == {ShortWait, attempts_window}

WindowSpecInit ==
    /\ FileInit({4})
    /\ \E n \in InitAttempts : LoginInitAt(n)
    /\ RedisIdleInit
    /\ \E remaining \in WindowRemaining : WindowInit(remaining)
    /\ refused = {}
    /\ SessionInit
    /\ AbuseInitAt("free", NoUsage, 1)

WindowNext ==
    \/ \E id \in 1..MaxChallenges : ExpireChallenge(id)
    \/ \E r \in SeqReqs : LoginStart(r) \/ LoginStep(r)
    \/ WaitShort
    \/ \E ip \in LoginIPs : WaitRetry(ip)

SpecWindow == WindowSpecInit /\ [][WindowNext]_vars

(***************************************************************************)
(* Challenges and addresses: one login request at a time, from the address *)
(* with recorded failures or from another address, which may name any      *)
(* challenge id that was issued.                                           *)
(***************************************************************************)
\* POST /login arrives from an address that was never challenged
LoginStartElsewhere(r) ==
    /\ lreq[r].pc = "idle"
    /\ logins < MaxLogins
    /\ logins' = logins + 1
    /\ \E ip \in IPs \ LoginIPs, cid \in 0..(nextChal - 1) :
          lreq' = [lreq EXCEPT ![r] = [LoginIdle EXCEPT !.pc = "begin",
                       !.ip = ip, !.challenge_id = cid,
                       !.flagged = ip \in blocked]]
    /\ Silent
    /\ UNCHANGED <<attempts, blocked, challenges, nextChal, consumed, solved>>
    /\ UNCHANGED <<fvars, pvars, now, captcha_store, nextCap>>

BindingNext ==
    \/ \E id \in 1..MaxChallenges : ExpireChallenge(id)
    \/ \E r \in SeqReqs :
          \/ LoginStart(r)
          \/ LoginStartElsewhere(r)
          \/ LoginStep(r)

SpecBinding == LoginInit /\ [][BindingNext]_vars

(***************************************************************************)
(* Properties of the token life cycle (SpecToken).                         *)
(***************************************************************************)

\* C1: a download token is single-use.  Whatever way the concurrent
\* redemption requests interleave, verify_download_token succeeds at most
\* once for a token: every verification after the first success fails.
C1_TokenSingleUse == \A t \in Toks : tokSuccess[t] <= 1

\* a token that was redeemed is presented again, for the same file and from
\* the same address, and is refused
C1_Witness ==
    /\ response.note = "replay"
    /\ response.result = "invalid_token"

\* C9: verify_download_token returns false when the token is presented from
\* another address than the one recorded at creation, or for another file
\* than the one it was minted for.
C9_TokenBinding ==
    response.note \in {"mismatch", "mismatch_live"}
        => response.result = "invalid_token"

\* an unused, unexpired token is presented from another address or for
\* another file, and is refused
C9_Witness ==
    /\ response.note = "mismatch_live"
    /\ response.result = "invalid_token"

\* C29: a verify_download_token call that fails because the file or the
\* client address does not match leaves the token record unchanged (still
\* unused), so the holder it was minted for can still redeem it once within
\* its 60 seconds: a presentation by the holder, for the file it was minted
\* for, of a token that is unexpired and was not redeemed yet succeeds.
C29_MismatchKeepsToken ==
    [][/\ response'.note = "mismatch_live" => tokens' = tokens
       /\ response'.note = "valid" => response'.result = "download_url"]_vars

\* a token was refused for a mismatch and was redeemed by its holder later
C29_Witness ==
    /\ response.note = "valid"
    /\ response.result = "download_url"
    /\ \E t \in refused : tokSuccess[t] = 1

(***************************************************************************)
(* Properties of the password gate (SpecPassword).                         *)
(***************************************************************************)
LockedInDb(f) == IsLocked(db_max[f], db_failed[f])

\* C6: a request for a file whose failed-attempt count has reached its
\* maximum is answered 'locked' (and its password is not verified).
C6_LockedAnswer ==
    [][\A r \in Reqs :
          (/\ req[r].pc = "check" /\ req'[r].pc = "idle"
           /\ req[r].op \in {"verify_password", "download_file"}
           /\ LockedInDb(req[r].code)
           /\ IsLocked(db_max[req[r].code], req[r].loaded))
          => response'.result = "locked"]_vars

\* C7: the lock is terminal.  Once failed_password_attempts has reached the
\* maximum it stays at or above it, whatever way requests interleave.
C7_LockTerminal ==
    [][\A f \in Files : LockedInDb(f) => IsLocked(db_max[f], db_failed'[f])]_vars

\* C8: once the stored failed-attempt count is 3 or more, every endpoint
\* compares a submitted password only in a request that solved a captcha.
C8_CaptchaBeforePassword ==
    [][\A r \in Reqs :
          (/\ req[r].pc = "check"
           /\ req[r].loaded >= CaptchaThreshold
           /\ req'[r].pw_checked)
          => req'[r].captcha_ok]_vars

\* C10: a token for a password-protected file is minted only by
\* verify-password, after the submitted password verified against the
\* stored hash, for a row that was not locked, and (from 3 failures on)
\* after a captcha was solved; initiate-download never mints one.
C10_MintGuard ==
    [][nextTok' # nextTok =>
          LET m == mintedFor'[nextTok] IN
          HasPassword(m.file_id) =>
              \E r \in Reqs :
                  /\ req[r].pc = "mint" /\ req'[r].pc = "idle"
                  /\ req[r].op = "verify_password"
                  /\ req[r].code = m.file_id
                  /\ req[r].password = FilePassword[m.file_id]
                  /\ ~IsLocked(db_max[m.file_id], req[r].loaded)
                  /\ (req[r].loaded >= CaptchaThreshold => req[r].captcha_ok)]_vars

\* a token was minted for the protected file by a request that had to solve
\* a captcha first
C10_Witness ==
    /\ response.result = "token"
    /\ response.note = "after_captcha"
    /\ \E t \in DOMAIN mintedFor : HasPassword(mintedFor[t].file_id)

(***************************************************************************)
(* Properties of the challenge verifiers (SpecChallenge) and of the login  *)
(* flow (SpecLogin).                                                       *)
(***************************************************************************)

C3_OneSuccess ==
    [][\A r \in Reqs :
          (lreq[r].pc = "verify_del" /\ lreq'[r].verified)
          => lreq[r].challenge_id \notin solved]_vars

\* C4: when the threat level of the address asks for a challenge (its
\* action is not "none"), login checks the password only in a request whose
\* challenge was verified.
C4_PasswordAfterChallenge ==
    \A r \in Reqs :
        lreq[r].pc = "auth" => lreq[r].action = "none" \/ lreq[r].verified

\* C5: once the address is flagged as blocked (50 failures), no later login
\* request from it reaches the password check.
C5_BlockedFirst ==
    \A r \in Reqs : lreq[r].pc = "auth" => ~lreq[r].flagged

(***************************************************************************)
(* Properties of the escalation ladder (SpecLadder).                       *)
(***************************************************************************)
\* where a request holds the count get_threat_level has just read
ThreatPcs == {"gate_blk", "rf_blk", "cc_blk"}

\* the order of the actions by restrictiveness: none, arithmetic challenge,
\* proof of work 2, 3, 4, timed block 300 s, 3600 s, permanent block
Rank(t) ==
    CASE t.action = "none" -> 0
      [] t.action = "simple_math" -> 1
      [] t.action = "proof_of_work" -> t.difficulty
      [] t.action = "temp_block" /\ t.difficulty = 300 -> 5
      [] t.action = "temp_block" /\ t.difficulty = 3600 -> 6
      [] t.action = "permanent_block" -> 7
      [] OTHER -> 8

\* C11: escalation is monotonic.  For all failure counts f1 < f2 the action
\* get_threat_level selects for f2 is at least as restrictive as the one
\* for f1.
C11_Monotonic ==
    \A r \in Reqs :
        lreq[r].pc \in ThreatPcs =>
            \A f1 \in 0..lreq[r].cnt :
                Rank(GetThreatLevel(f1, FALSE))
                    <= Rank(GetThreatLevel(lreq[r].cnt, FALSE))

\* get_threat_level has read a count past the top row of the ladder
C11_Witness ==
    \E r \in Reqs :
        /\ lreq[r].pc \in ThreatPcs
        /\ lreq[r].cnt > 50
        /\ Threat(r).action = "permanent_block"

\* the ladder as the specification tabulates it
LadderRow(f) ==
    IF f <= 2 THEN [action |-> "none", difficulty |-> 0]
    ELSE IF f <= 4 THEN [action |-> "simple_math", difficulty |-> 1]
    ELSE IF f <= 9 THEN [action |-> "proof_of_work", difficulty |-> 2]
    ELSE IF f <= 14 THEN [action |-> "proof_of_work", difficulty |-> 3]
    ELSE IF f <= 19 THEN [action |-> "proof_of_work", difficulty |-> 4]
    ELSE IF f <= 29 THEN [action |-> "temp_block", difficulty |-> 300]
    ELSE IF f <= 49 THEN [action |-> "temp_block", difficulty |-> 3600]
    ELSE [action |-> "permanent_block", difficulty |-> 0]

\* C12: for an address that is not flagged as blocked, get_threat_level
\* returns the action and parameter of the highest row whose threshold the
\* failure count meets: none 0-2, arithmetic 3-4, proof of work 2 for 5-9,
\* 3 for 10-14, 4 for 15-19, block 300 s for 20-29, 3600 s for 30-49,
\* permanent block from 50.
C12_LadderRows ==
    \A r \in Reqs :
        (lreq[r].pc \in ThreatPcs /\ lreq[r].ip \notin blocked)
            => Threat(r) = LadderRow(lreq[r].cnt)

\* get_threat_level has read a count that sits exactly on a threshold
C12_Witness ==
    \E r \in Reqs :
        /\ lreq[r].pc \in ThreatPcs
        /\ lreq[r].ip \notin blocked
        /\ lreq[r].cnt = 20
        /\ Threat(r) = [action |-> "temp_block", difficulty |-> 300]

(***************************************************************************)
(* Properties of the failure counters (SpecLogin and SpecIdentifiers).     *)
(***************************************************************************)

MaxOver(store, keys) ==
    LET vals == {store[k] : k \in keys \cap DOMAIN store} \cup {0}
    IN  CHOOSE v \in vals : \A w \in vals : w <= v

PastIncr(r) ==
    /\ lreq[r].mode \in {"challenge", "password"}
    /\ lreq[r].pc \in {"rf_lvl", "rf_blk", "rf_block", "cc_lvl", "cc_blk",
                        "cc_store"}

\* C15: two failed attempts for the same identifier that are processed
\* concurrently are both counted.  When the first two requests of a
\* behaviour have both run record_failure (neither has answered yet), every
\* counter of the identifier has increased by exactly 2, whatever the
\* interleaving was.
C15_BothCounted ==
    (logins = 2 /\ \A r \in Reqs : PastIncr(r))
        => \A r \in Reqs, email \in Emails, fp \in Fingerprints :
              \A k \in FailureKeys(lreq[r].ip, email, fp) :
                  k \in DOMAIN attempts /\ attempts[k] - 2 \in InitAttempts

\* both requests are in flight and each has just run its pipeline: neither
\* has read the counters back yet
C15_Witness ==
    /\ logins = 2
    /\ \A r \in Reqs : PastIncr(r) /\ lreq[r].pc = "rf_lvl"
    /\ attempts[IpKey("ip1")] - 2 \in InitAttempts

(***************************************************************************)
(* Properties of one login request at a time (SpecLadder).                 *)
(***************************************************************************)
\* the count stored under key (0 when the key is absent)
Count(store, key) == IF key \in DOMAIN store THEN store[key] ELSE 0

\* C16: in the login flow a wrong solution to an issued challenge adds
\* exactly one to the failure count of the address, and the challenge the
\* request returns is the one the ladder prescribes for the increased
\* count (with 4 earlier failures: the count becomes 5 and a proof-of-work
\* challenge of difficulty 2 is returned).
C16_WrongSolutionEscalates ==
    [][\A r \in Reqs :
          lreq[r].mode = "challenge" =>
            /\ (lreq[r].pc = "rf_incr" /\ lreq'[r].pc = "rf_lvl")
                  => Count(attempts', IpKey(lreq[r].ip))
                        = Count(attempts, IpKey(lreq[r].ip)) + 1
            /\ PastIncr(r) => attempts' = attempts
            /\ (PastIncr(r) /\ lreq'[r].pc = "idle"
                    /\ lreq[r].ip \notin blocked)
                  => LET row == LadderRow(Count(attempts, IpKey(lreq[r].ip)))
                     IN  /\ response'.note = row.action
                         /\ row.action = "proof_of_work" =>
                               /\ challenges'[nextChal].type = "pow"
                               /\ challenges'[nextChal].difficulty
                                     = row.difficulty
                         /\ row.action = "simple_math" =>
                               challenges'[nextChal].type = "math"]_vars

\* the address had 4 failures and was sent an arithmetic challenge; the
\* wrong sum was submitted, the count is 5 and the answer carries a
\* proof-of-work challenge of difficulty 2
C16_Witness ==
    /\ logins = 2
    /\ <<"asr", 1>> \in consumed /\ 1 \notin solved
    /\ attempts[IpKey("ip1")] = 5
    /\ response = [result |-> "challenge", note |-> "proof_of_work"]
    /\ 2 \in DOMAIN challenges
    /\ challenges[2].type = "pow" /\ challenges[2].difficulty = 2

\* C17: for a proof-of-work challenge with prefix P and difficulty d the
\* verifier accepts a solution s if and only if the hexadecimal SHA-256
\* digest of P, ":" and s joined begins with at least d zeros.
C17_PowAcceptance ==
    [][\A r \in Reqs :
          (/\ lreq[r].pc = "verify_del" /\ lreq'[r].pc # "verify_del"
           /\ lreq[r].data.type = "pow")
          => (lreq'[r].verified <=>
                StartsWithZeros(
                    Sha256Hex(lreq[r].data.challenge \o ":" \o lreq[r].solution),
                    lreq[r].data.difficulty))]_vars

(***************************************************************************)
(* Properties of the stand-alone proof-of-work verifiers (SpecPow).        *)
(***************************************************************************)

\* C18: the proof-of-work verifiers consume the challenge whatever the
\* outcome.  After a verification that found the challenge and rejected a
\* wrong solution, every later verification of the same challenge id
\* fails, also with a correct solution.
C18_ConsumedOnReject ==
    response.note = "after_reject" => response.result = "invalid"

(***************************************************************************)
(* Properties of the login flow during a redis outage (SpecOutage).        *)
(***************************************************************************)

\* C19: when redis is unreachable the ledger fails open.  The threat level
\* counts as 0 and record_failure and record_success do not raise, so a
\* login request answered during the outage gets the outcome of its
\* password check: it succeeds when the credentials are right.
C19_FailOpen ==
    [][\A r \in Reqs :
          (~redis_up /\ lreq[r].pc # "idle" /\ lreq'[r].pc = "idle")
          => response'.result \in {"logged_in", "unauthorized"}]_vars

(***************************************************************************)
(* The threat ledger and the file passwords (SpecPassword).                *)
(***************************************************************************)

\* C20: every verification failure is recorded against the requesting
\* address in the threat ledger.  A wrong file password adds one to the
\* failure counter of the address and one to failed_password_attempts of
\* the file.
C20_FailureRecorded ==
    [][\A r \in Reqs :
          (req[r].pc = "commit_fail" /\ req'[r].pc = "sleep")
          => /\ Count(attempts', IpKey(req[r].ip))
                   = Count(attempts, IpKey(req[r].ip)) + 1
             /\ db_failed'[req[r].code] = db_failed[req[r].code] + 1]_vars

(***************************************************************************)
(* Client errors in the login body (SpecValidation).                       *)
(***************************************************************************)

\* C21: a login request that fails validation (its challenge_id was never
\* issued) is rejected with no state mutation: while the handler works on
\* it no failure counter changes and no stored challenge is created or
\* deleted.
C21_ValidationNoMutation ==
    [][\A r \in Reqs :
          (lreq[r].challenge_id = UnissuedId /\ lreq'[r] # lreq[r])
          => attempts' = attempts /\ challenges' = challenges]_vars

(***************************************************************************)
(* Replay and theft (SpecViolation).                                       *)
(***************************************************************************)

\* C22: a security violation leaves the guessing-failure counters of the
\* identifier unchanged: the redemption of a token with a mismatched
\* binding changes no counter, and neither does the login request that
\* submits an already consumed challenge again.
C22_ViolationNotCounted ==
    [][/\ response'.note \in {"mismatch", "mismatch_live"}
             => attempts' = attempts /\ db_failed' = db_failed
       /\ \A r \in Reqs :
             (lreq[r].replayed /\ lreq'[r] # lreq[r]) => attempts' = attempts]_vars

(***************************************************************************)
(* Properties of the abuse checks (SpecAbuse).                             *)
(***************************************************************************)

\* C23: the composite abuse score is the sum of the weights of exactly the
\* checks that failed (storage-days, bandwidth multiplier, unique-downloader
\* ratio, upload rate): every failing check sets its flag, no passing check
\* does, and the score is 0 when no check fails.
C23_ScoreSumsFailedChecks ==
    [][response'.result = "scores" =>
          /\ scores'.storage_abuse = ~CheckStorageAbuse(tier, usage)
          /\ scores'.bandwidth_abuse = ~CheckBandwidthAbuse(stats, tier)
          /\ scores'.pattern_abuse = ~CheckDownloadPatternAbuse(stats, tier)
          /\ scores'.rapid_upload = ~CheckRapidUploadPattern(tier, usage)
          /\ (/\ CheckStorageAbuse(tier, usage)
              /\ CheckBandwidthAbuse(stats, tier)
              /\ CheckDownloadPatternAbuse(stats, tier)
              /\ CheckRapidUploadPattern(tier, usage)
              /\ CheckFileCountAbuse(tier, usage))
                => scores'.overall_score = 0]_vars

(***************************************************************************)
(* Properties of the sessions (SpecSession).                               *)
(***************************************************************************)

\* C24: after logout-all (revoke_all_user_tokens) every access token issued
\* to that user before the call is rejected by get_current_user for the
\* rest of its lifetime.
C24_LogoutAllRevokes ==
    response.note = "after_logout_all" => response.result = "rejected"

(***************************************************************************)
(* Properties of the rolling window (SpecWindow).                          *)
(***************************************************************************)

\* C25: every failure counter in the store carries a time to live of at
\* most 24 hours in every reachable state: no interleaving of
\* record_failure, record_success and key expiry leaves a counter key
\* without a TTL.
C25_CountersExpire ==
    \A k \in DOMAIN attempts :
        /\ k \in DOMAIN attempts_ttl
        /\ attempts_ttl[k] - now <= attempts_window

\* C26: an address that was told a timed block (retry_after 300 s or
\* 3600 s) is allowed to attempt login again once the announced seconds
\* have passed without a new failure from it: its next plain login request
\* passes the gate and reaches the password check.
C26_RetryAfterHonoured ==
    [][\A r \in Reqs :
          (/\ lreq[r].pc = "gate_blk" /\ lreq'[r].pc # "gate_blk"
           /\ ~lreq[r].has_solution
           /\ lreq[r].ip \in DOMAIN block_told
           /\ now >= block_told[lreq[r].ip].at
                        + block_told[lreq[r].ip].retry_after)
          => lreq'[r].pc = "auth"]_vars

(***************************************************************************)
(* The failed-attempt counter of a file (SpecPassword).                    *)
(***************************************************************************)

\* C27: every wrong-password check on a file raises its
\* failed_password_attempts by exactly one, also when two wrong attempts
\* are processed concurrently, so that a file with max_password_attempts = N
\* admits at most N wrong password checks.
C27_EachWrongCounted ==
    [][\A r \in Reqs :
          (req[r].pc = "commit_fail" /\ req'[r].pc = "sleep")
          => db_failed'[req[r].code] = db_failed[req[r].code] + 1]_vars

(***************************************************************************)
(* Challenges and addresses (SpecBinding).                                 *)
(***************************************************************************)

\* C28: verify_challenge never succeeds for a challenge that was created
\* for a different identifier: a solved challenge lets a login request past
\* the challenge gate only when the request comes from the address the
\* challenge was issued to.
C28_ChallengeBoundToAddress ==
    [][\A r \in Reqs :
          (lreq[r].pc = "verify_del" /\ lreq'[r].verified)
          => issuedTo[lreq[r].challenge_id] = lreq[r].ip]_vars

(***************************************************************************)
(* The download statistics and the pattern check (SpecAbuse).              *)
(***************************************************************************)

\* C30: a file all of whose downloads came from distinct client addresses
\* is never flagged by check_download_pattern_abuse, for any number of
\* downloads and any tier, given the unique_downloaders value that
\* download_file maintains.  (Every download of this specification comes
\* from an address of its own.)
C30_DistinctNeverFlagged == response.result # "pattern_abuse"

====
